---------------------------- MODULE Spec2Model ----------------------------
(***************************************************************************)
(* Psychosonus: the thread-safe music queue (queue_manager.py), the        *)
(* play/advance coordinator of the Discord bot (discord_bot.py) and the    *)
(* Flask control handlers that drive both (web_interface.py).              *)
(*                                                                         *)
(* Three kinds of executors share the state: request threads (Flask runs   *)
(* threaded=True), the bot's single asyncio event loop, and the audio      *)
(* player threads of the voice client, which call after_playing.           *)
(*                                                                         *)
(* Of the bot's commands, join, leave, skip and stop are modelled; songs   *)
(* come in through the web add handler.  Every request is one of an        *)
(* authenticated user with access to the bot's guild.                      *)
(***************************************************************************)
EXTENDS Integers, Sequences, FiniteSets, Bags, TLC

(***************************************************************************)
(* Bounds of the model.                                                    *)
(***************************************************************************)
NThreads == 2   \* request threads
NTracks  == 2   \* distinct songs a client can submit
MaxCap   == 2   \* largest configured max_queue_size
MaxAdds  == 3   \* songs accepted in one behaviour of the FIFO scenario
NAdders  == 4   \* threads of the concurrent-enqueue scenario
MaxHits  == 2   \* results one search can return
MaxTasks == 2   \* coroutines the event loop holds at once
MaxCallbacks == 1  \* after_playing calls not yet made by player threads
MaxSessions == 2   \* voice connections made in one behaviour
MaxRequests == 4   \* commands and web requests in one behaviour

Threads == 1..NThreads
Adders  == 1..NAdders
Tracks  == 1..NTracks

\* None, for a song reference (current_track, a return value of get_next).
NoSong == 0
\* None, for the holder of MusicQueue._lock; the event loop's thread is LoopThread.
NoThread == 0
LoopThread == NThreads + 1

(***************************************************************************)
(* Song (models.py).  A Song object is identified by its id; its other     *)
(* fields are a function of the id.                                        *)
(***************************************************************************)
SourceOf(i) == IF i % 2 = 1 THEN "spotify" ELSE "youtube"

\* Strings are sequences of tokens, so that formatting is concatenation.
Tok(k, i) == [k |-> k, i |-> i]
Str(k, i) == <<Tok(k, i)>>

\* A URL: the text that names it and, for a search hit, its rank in the
\* result list.
NoUrl == [q |-> <<>>, rank |-> 0]

Song(i) ==
    [id |-> i, title |-> Str("title", i), artist |-> Str("artist", i),
     duration |-> "Unknown", url |-> [q |-> Str("url", i), rank |-> 0],
     source |-> SourceOf(i), youtube_url |-> NoUrl]

to_dict(s) ==
    [id |-> s.id, title |-> s.title, artist |-> s.artist,
     duration |-> s.duration, url |-> s.url, source |-> s.source,
     youtube_url |-> s.youtube_url]

VARIABLES
    queue,          \* MusicQueue.queue: the queued song ids, head first
    current_track,  \* MusicQueue.current_track
    max_size,       \* MusicQueue.max_size
    lock,           \* holder of MusicQueue._lock, or NoThread
    thr,            \* request threads: where each is in its handler
    last,           \* what the call that has just returned gave back
    accepted,       \* songs whose add_song returned True, in order
    returned,       \* songs returned by get_next, in order
    held,           \* objects of the queue reachable from the list last returned
    altered,        \* songs whose fields a holder of a returned list has changed
    voice_client,   \* MusicBot.voice_client: 0 (None) or the number of the session
    connected,      \* whether that voice client is connected
    is_playing,     \* MusicBot.is_playing
    current_channel,   \* MusicBot.current_channel is set
    current_guild_id,  \* MusicBot.current_guild_id is set
    player,         \* the voice client's audio player
    callbacks,      \* ended players whose after_playing is still to be called
    ready,          \* coroutines scheduled on the loop and not yet started
    waiting,        \* coroutines suspended at an await
    running,        \* the coroutine the loop thread is inside, between awaits
    acked,          \* threads whose disconnect() coroutine has completed
    njoins,         \* !join commands so far (bounded by MaxSessions)
    nrequests,      \* commands and web requests so far (bounded by MaxRequests)
    search_stub,    \* the search service: results each query gets
    extract_stub,   \* the extraction service: outcome per URL and format
    ip_writer,      \* which domain wrote is_playing last
    searched,       \* the queries the last resolution issued, in order
    failed          \* the songs whose search or extraction has failed

qvars == <<queue, current_track, max_size, lock, thr, last>>
hvars == <<accepted, returned, held, altered>>
bvars == <<voice_client, connected, is_playing, current_channel,
           current_guild_id, player, callbacks>>
lvars == <<ready, waiting, running, acked, njoins>>
wvars == <<search_stub, extract_stub>>
gvars == <<ip_writer, searched, failed>>
cvars == <<bvars, lvars, wvars, gvars, nrequests>>
vars == <<qvars, hvars, cvars>>

(***************************************************************************)
(* A request thread: pc is its position, op the operation it runs, arg the *)
(* operation's argument.  last holds the result of the call that has just  *)
(* returned, until the next call begins: op the operation, ret its boolean *)
(* result ("none" when it has none), val a returned song or size, view a   *)
(* returned get_queue_list().                                              *)
(***************************************************************************)
IdleThread == [pc |-> "idle", h |-> "none", op |-> "none", arg |-> 0]

NoResult == [op |-> "none", ret |-> "none", val |-> 0, view |-> <<>>]

Call(t, op, pc, arg) ==
    /\ thr' = [thr EXCEPT ![t] = [pc |-> pc, h |-> thr[t].h, op |-> op, arg |-> arg]]
    /\ last' = NoResult

\* where the caller of add_song goes on: add_to_queue goes on to its
\* autoplay test when the song was accepted, a direct caller is done
AfterAdd(t, ret) ==
    IF thr[t].h = "add_to_queue" /\ ret = "true" THEN "atq_nudge" ELSE "idle"

\* the method returns to its caller, who goes on at pc
Return(t, pc, ret, val, view) ==
    /\ thr' = [thr EXCEPT ![t] = IF pc = "idle" THEN IdleThread
                                  ELSE [@ EXCEPT !.pc = pc]]
    /\ last' = [op |-> thr[t].op, ret |-> ret, val |-> val, view |-> view]

(***************************************************************************)
(* MusicQueue (queue_manager.py).  Every method body runs under            *)
(* `with self._lock`.                                                      *)
(***************************************************************************)
\* a lock that excludes nobody
CanAcquireNoLock == TRUE
\* with self._lock: the lock can be taken when nobody holds it
CanAcquire == lock = NoThread

\* capacity tests that are off by one, either way
QueueFullStrict == Len(queue) > max_size
QueueFullOffByOne == Len(queue) + 1 >= max_size
\* len(self.queue) >= self.max_size
QueueFull == Len(queue) >= max_size

\* a removal that drops the last element whatever the position asked for
RemoveLast(s, k) == SubSeq(s, 1, Len(s) - 1)

\* the sequence without its element at 1-based position k
RemoveAt(s, k) == [j \in 1..(Len(s) - 1) |-> IF j < k THEN s[j] ELSE s[j + 1]]

\* add_song(song): enter the with-block
add_song_enter(t, song) ==
    /\ thr[t].pc = "idle" \/ (thr[t].pc = "atq_add" /\ thr[t].arg = song)
    /\ CanAcquire
    /\ lock' = t
    /\ Call(t, "add_song", "add_check", song)
    /\ UNCHANGED <<queue, current_track, max_size>>

\* add_song: the capacity test; a full queue returns False
add_song_check(t) ==
    /\ thr[t].pc = "add_check"
    /\ IF QueueFull
       THEN /\ Return(t, AfterAdd(t, "false"), "false", 0, <<>>)
            /\ lock' = NoThread
       ELSE /\ thr' = [thr EXCEPT ![t].pc = "add_append"]
            /\ UNCHANGED <<lock, last>>
    /\ UNCHANGED <<queue, current_track, max_size>>

\* an add_song that puts the song at the head of the queue
add_song_append_left(t) ==
    /\ thr[t].pc = "add_append"
    /\ queue' = <<thr[t].arg>> \o queue
    /\ Return(t, AfterAdd(t, "true"), "true", 0, <<>>)
    /\ lock' = NoThread
    /\ UNCHANGED <<current_track, max_size>>

\* an add_song that returns without releasing the lock
add_song_append_keeps_lock(t) ==
    /\ thr[t].pc = "add_append"
    /\ queue' = Append(queue, thr[t].arg)
    /\ Return(t, AfterAdd(t, "true"), "true", 0, <<>>)
    /\ UNCHANGED <<current_track, max_size, lock>>

\* add_song: self.queue.append(song); return True
add_song_append(t) ==
    /\ thr[t].pc = "add_append"
    /\ queue' = Append(queue, thr[t].arg)
    /\ Return(t, AfterAdd(t, "true"), "true", 0, <<>>)
    /\ lock' = NoThread
    /\ UNCHANGED <<current_track, max_size>>

\* get_next(): enter the with-block
get_next_enter(t) ==
    /\ thr[t].pc = "idle"
    /\ CanAcquire
    /\ lock' = t
    /\ Call(t, "get_next", "get_body", 0)
    /\ UNCHANGED <<queue, current_track, max_size>>

\* deque.pop(): the element taken from the right end
PopRight(q) == [value |-> q[Len(q)], rest |-> SubSeq(q, 1, Len(q) - 1)]
\* deque.popleft(): the element taken and the deque left
PopLeft(q) == [value |-> Head(q), rest |-> Tail(q)]

\* a get_next that forgets the current track when the queue is empty
get_next_body_forgets(t) ==
    /\ thr[t].pc = "get_body"
    /\ IF queue # <<>>
       THEN /\ current_track' = PopLeft(queue).value
            /\ queue' = PopLeft(queue).rest
            /\ Return(t, "idle", "none", current_track', <<>>)
       ELSE /\ Return(t, "idle", "none", NoSong, <<>>)
            /\ current_track' = NoSong
            /\ UNCHANGED queue
    /\ lock' = NoThread
    /\ UNCHANGED max_size

\* get_next: pop the head into current_track and return it, or return None
get_next_body(t) ==
    /\ thr[t].pc = "get_body"
    /\ IF queue # <<>>
       THEN /\ current_track' = PopLeft(queue).value
            /\ queue' = PopLeft(queue).rest
            /\ Return(t, "idle", "none", current_track', <<>>)
       ELSE /\ Return(t, "idle", "none", NoSong, <<>>)
            /\ UNCHANGED <<queue, current_track>>
    /\ lock' = NoThread
    /\ UNCHANGED max_size

\* remove_at_index(index): enter the with-block
remove_at_index_enter(t, index) ==
    /\ thr[t].pc = "idle"
    /\ CanAcquire
    /\ lock' = t
    /\ Call(t, "remove_at_index", "remove_body", index)
    /\ UNCHANGED <<queue, current_track, max_size>>

\* a remove_at_index that counts a negative index from the right end
remove_at_index_body_wraps(t) ==
    /\ thr[t].pc = "remove_body"
    /\ IF -Len(queue) <= thr[t].arg /\ thr[t].arg < Len(queue)
       THEN /\ queue' = RemoveAt(queue, (thr[t].arg % Len(queue)) + 1)
            /\ Return(t, "idle", "true", 0, <<>>)
       ELSE /\ Return(t, "idle", "false", 0, <<>>)
            /\ UNCHANGED queue
    /\ lock' = NoThread
    /\ UNCHANGED <<current_track, max_size>>

\* remove_at_index: drop the song at a valid 0-based index
remove_at_index_body(t) ==
    /\ thr[t].pc = "remove_body"
    /\ IF 0 <= thr[t].arg /\ thr[t].arg < Len(queue)
       THEN /\ queue' = RemoveAt(queue, thr[t].arg + 1)
            /\ Return(t, "idle", "true", 0, <<>>)
       ELSE /\ Return(t, "idle", "false", 0, <<>>)
            /\ UNCHANGED queue
    /\ lock' = NoThread
    /\ UNCHANGED <<current_track, max_size>>

\* clear(): enter the with-block
clear_enter(t) ==
    /\ thr[t].pc = "idle"
    /\ CanAcquire
    /\ lock' = t
    /\ Call(t, "clear", "clear_body", 0)
    /\ UNCHANGED <<queue, current_track, max_size>>

\* a clear that leaves the head of the queue behind
clear_body_keeps_head(t) ==
    /\ thr[t].pc = "clear_body"
    /\ queue' = IF queue = <<>> THEN <<>> ELSE <<Head(queue)>>
    /\ Return(t, "idle", "none", 0, <<>>)
    /\ lock' = NoThread
    /\ UNCHANGED <<current_track, max_size>>

\* a clear that forgets the current track as well
clear_body_everything(t) ==
    /\ thr[t].pc = "clear_body"
    /\ queue' = <<>>
    /\ current_track' = NoSong
    /\ Return(t, "idle", "none", 0, <<>>)
    /\ lock' = NoThread
    /\ UNCHANGED max_size

\* clear: self.queue.clear()
clear_body(t) ==
    /\ thr[t].pc = "clear_body"
    /\ queue' = <<>>
    /\ Return(t, "idle", "none", 0, <<>>)
    /\ lock' = NoThread
    /\ UNCHANGED <<current_track, max_size>>

\* the list get_queue_list builds: the current track first, then the queue
QueueList ==
    (IF current_track # NoSong
     THEN <<[song |-> to_dict(Song(current_track)), current |-> TRUE]>>
     ELSE <<>>)
    \o [j \in 1..Len(queue) |-> [song |-> to_dict(Song(queue[j])), current |-> FALSE]]

\* The objects a caller can reach through a returned list: the deque
\* self.queue, the attribute dict of a Song, or an object the call has made.
Fresh == <<"fresh", 0>>
TheDeque == <<"deque", 0>>
SongDict(i) == <<"song", i>>

\* a to_dict that hands out the song's own attribute dict
own_dict(i) == SongDict(i)
\* to_dict returns a dict literal with the (immutable) field values: an
\* object made by the call
to_dict_object(i) == Fresh

\* queue_list = []: the list returned is made by the call, and so is each
\* entry {'song': ..., 'current': ...}
queue_list_object == Fresh

\* the objects of the queue reachable from the list get_queue_list returns
Exposed ==
    ({queue_list_object}
     \cup {to_dict_object(i) :
              i \in ({queue[j] : j \in DOMAIN queue} \cup {current_track}) \ {NoSong}})
    \ {Fresh}

\* get_queue_list(): enter the with-block
get_queue_list_enter(t) ==
    /\ thr[t].pc = "idle"
    /\ CanAcquire
    /\ lock' = t
    /\ Call(t, "get_queue_list", "list_test", 0)
    /\ UNCHANGED <<queue, current_track, max_size, held>>

\* get_queue_list: the test `if self.current_track`, its outcome kept in arg
get_queue_list_test(t) ==
    /\ thr[t].pc = "list_test"
    /\ thr' = [thr EXCEPT ![t] = [@ EXCEPT !.pc = "list_body",
                                             !.arg = IF current_track # NoSong
                                                     THEN 1 ELSE 0]]
    /\ UNCHANGED <<queue, current_track, max_size, lock, last, held>>

\* get_queue_list: build and return the list.  After a test that found a
\* current track, self.current_track is read again for to_dict(): when it
\* has become None in between, the call raises AttributeError.
get_queue_list_body(t) ==
    /\ thr[t].pc = "list_body"
    /\ IF thr[t].arg = 1 /\ current_track = NoSong
       THEN Return(t, "idle", "raise", 0, <<>>) /\ held' = {}
       ELSE Return(t, "idle", "none", 0, QueueList) /\ held' = Exposed
    /\ lock' = NoThread
    /\ UNCHANGED <<queue, current_track, max_size>>

\* size(): enter the with-block
size_enter(t) ==
    /\ thr[t].pc = "idle"
    /\ CanAcquire
    /\ lock' = t
    /\ Call(t, "size", "size_body", 0)
    /\ UNCHANGED <<queue, current_track, max_size>>

\* size: return len(self.queue)
size_body(t) ==
    /\ thr[t].pc = "size_body"
    /\ Return(t, "idle", "none", Len(queue), <<>>)
    /\ lock' = NoThread
    /\ UNCHANGED <<queue, current_track, max_size>>

(***************************************************************************)
(* shuffle_queue (web_interface.py): takes the queue's lock itself and     *)
(* replaces the deque by a shuffled copy.                                  *)
(***************************************************************************)
\* the orders random.shuffle can give a list
Shuffles(s) ==
    {[j \in 1..Len(s) |-> s[p[j]]] :
        p \in {f \in [1..Len(s) -> 1..Len(s)] :
                  \A a, b \in 1..Len(s) : a # b => f[a] # f[b]}}

\* a shuffle that reads and replaces the deque without taking the lock
shuffle_queue_enter_unlocked(t) ==
    /\ thr[t].pc = "idle"
    /\ UNCHANGED lock
    /\ Call(t, "shuffle_queue", "shuffle_body", 0)
    /\ UNCHANGED <<queue, current_track, max_size>>

\* shuffle_queue, lines 499-500: with self.bot.music_queue._lock
shuffle_queue_enter(t) ==
    /\ thr[t].pc = "idle"
    /\ CanAcquire
    /\ lock' = t
    /\ Call(t, "shuffle_queue", "shuffle_body", 0)
    /\ UNCHANGED <<queue, current_track, max_size>>

\* shuffle_queue, lines 500-502: copy, random.shuffle, replace the deque
shuffle_queue_body(t) ==
    /\ thr[t].pc = "shuffle_body"
    /\ \E s \in Shuffles(queue) : queue' = s
    /\ Return(t, "idle", "true", 0, <<>>)
    /\ lock' = NoThread
    /\ UNCHANGED <<current_track, max_size>>

(***************************************************************************)
(* The services play_next resolves a song with (youtube_manager.py).       *)
(* search_stub gives the number of results of each query a Spotify song    *)
(* can lead to; extract_stub gives, per URL and format, what extract_info  *)
(* does: "url" (a stream URL), "nourl" (no info, or info without one) or   *)
(* "raise".                                                                *)
(***************************************************************************)
\* limit=3 in play_next's search_tracks calls
SearchLimit == 3

Range(s) == {s[j] : j \in DOMAIN s}

\* the queries with the first two in the other order
SearchQueriesSwapped(s) ==
    <<s.title \o Str(" ", 0) \o s.artist,
      s.artist \o Str(" ", 0) \o s.title,
      s.title,
      s.artist \o Str(" - ", 0) \o s.title>>
\* search_queries of play_next, for song s
search_queries(s) ==
    <<s.artist \o Str(" ", 0) \o s.title,
      s.title \o Str(" ", 0) \o s.artist,
      s.title,
      s.artist \o Str(" - ", 0) \o s.title>>

Queries == UNION {Range(search_queries(Song(i))) : i \in {x \in Tracks : SourceOf(x) = "spotify"}}

Urls == {Song(i).url : i \in Tracks}
        \cup {[q |-> qr, rank |-> r] : qr \in Queries, r \in 1..MaxHits}

\* the formats get_audio_url tries: the primary one, then the fallbacks
Formats == <<"bestaudio/best", "bestaudio[ext=m4a]", "bestaudio[ext=webm]",
             "best[height<=480]", "worst">>

\* YouTubeManager.search_tracks(query, limit): the songs found, best first
search_tracks(query, limit) ==
    LET n == IF search_stub[query] < limit THEN search_stub[query] ELSE limit
    IN  [r \in 1..n |-> [url |-> [q |-> query, rank |-> r], source |-> "youtube"]]

\* the for-loop over search_queries, from the n-th query on: the queries
\* issued and the result list it ends with
RECURSIVE SearchFrom(_, _, _)
SearchFrom(qs, n, log) ==
    IF n > Len(qs) THEN [queries |-> log, tracks |-> <<>>]
    ELSE LET youtube_tracks == search_tracks(qs[n], SearchLimit)
         IN  IF youtube_tracks # <<>>
             THEN [queries |-> Append(log, qs[n]), tracks |-> youtube_tracks]
             ELSE SearchFrom(qs, n + 1, Append(log, qs[n]))

\* the fallback loop of get_audio_url, from format n on
RECURSIVE Fallback(_, _)
Fallback(url, n) ==
    IF n > Len(Formats) THEN 0
    ELSE IF extract_stub[url][n] = "url" THEN n
    ELSE Fallback(url, n + 1)

\* YouTubeManager.get_audio_url(url): the number of the format that gave a
\* stream URL, 0 for None
get_audio_url(url) ==
    IF extract_stub[url][1] = "url" THEN 1
    ELSE IF extract_stub[url][1] = "raise" THEN 0
    ELSE Fallback(url, 2)

\* a resolution that issues a query for a directly playable song as well
ResolveSearchesFirst(s) ==
    IF s.source = "spotify"
    THEN LET found == SearchFrom(search_queries(s), 1, <<>>)
         IN  IF found.tracks = <<>>
             THEN [queries |-> found.queries, url |-> NoUrl, audio |-> 0]
             ELSE [queries |-> found.queries, url |-> found.tracks[1].url,
                   audio |-> get_audio_url(found.tracks[1].url)]
    ELSE [queries |-> <<search_queries(s)[1]>>, url |-> s.url,
          audio |-> get_audio_url(s.url)]

\* lines 319-365 of play_next: the queries issued, the playback URL chosen
\* (NoUrl when no query found anything) and the audio format (0 for None)
Resolve(s) ==
    IF s.source = "spotify"
    THEN LET found == SearchFrom(search_queries(s), 1, <<>>)
         IN  IF found.tracks = <<>>
             THEN [queries |-> found.queries, url |-> NoUrl, audio |-> 0]
             ELSE [queries |-> found.queries, url |-> found.tracks[1].url,
                   audio |-> get_audio_url(found.tracks[1].url)]
    ELSE [queries |-> <<>>, url |-> s.url, audio |-> get_audio_url(s.url)]

(***************************************************************************)
(* The event loop.  A coroutine runs from one await to the next without    *)
(* any other coroutine running; a coroutine that makes a blocking call     *)
(* (search, extraction, the queue's lock) keeps the loop thread meanwhile, *)
(* and only the request and player threads go on.                          *)
(***************************************************************************)
NoTask == [kind |-> "none", pc |-> "none", song |-> NoSong, url |-> NoUrl,
           stale |-> FALSE, owner |-> NoThread, sess |-> 0]

NewTask(kind, owner) == [NoTask EXCEPT !.kind = kind, !.pc = "start", !.owner = owner]

TaskCount ==
    Len(ready) + BagCardinality(waiting) + (IF running = NoTask THEN 0 ELSE 1)

\* the coroutines the loop can go on with
Candidates ==
    IF running # NoTask THEN {running}
    ELSE (IF ready # <<>> THEN {Head(ready)} ELSE {}) \cup BagToSet(waiting)

RemReady(k) ==
    IF running = NoTask /\ ready # <<>> /\ Head(ready) = k THEN Tail(ready) ELSE ready

RemWaiting(k) ==
    IF running = NoTask /\ ~(ready # <<>> /\ Head(ready) = k)
    THEN waiting (-) SetToBag({k}) ELSE waiting

\* A resolution in flight: the song is dequeued and not yet handed to the
\* voice client.
InFlight(k) == k.kind = "play_next" /\ k.pc \in {"resolve", "play"}

\* a disconnect or stop happened while the coroutine was resolving
MarkTask(k) == IF InFlight(k) THEN [k EXCEPT !.stale = TRUE] ELSE k

RECURSIVE Copies(_, _)
Copies(S, B) ==
    IF S = {} THEN 0
    ELSE LET x == CHOOSE y \in S : TRUE IN CopiesIn(x, B) + Copies(S \ {x}, B)

MarkBag(B) ==
    LET S == BagToSet(B)
    IN  [y \in {MarkTask(x) : x \in S} |-> Copies({x \in S : MarkTask(x) = y}, B)]

\* the coroutine k has run up to its end, to an await, or into a blocking call
Finish(k, mark) ==
    /\ ready' = RemReady(k)
    /\ waiting' = IF mark THEN MarkBag(RemWaiting(k)) ELSE RemWaiting(k)
    /\ running' = NoTask

Suspend(k, k2, mark) ==
    /\ ready' = RemReady(k)
    /\ waiting' = (IF mark THEN MarkBag(RemWaiting(k)) ELSE RemWaiting(k))
                  (+) SetToBag({k2})
    /\ running' = NoTask

Continue(k, k2) ==
    /\ ready' = RemReady(k)
    /\ waiting' = RemWaiting(k)
    /\ running' = k2

\* a scheduling call that loses the coroutine
ScheduleLost(k) == TaskCount < MaxTasks /\ UNCHANGED <<ready, waiting, running>>
\* asyncio.run_coroutine_threadsafe(coro, loop), from a thread
Schedule(k) ==
    /\ TaskCount < MaxTasks
    /\ ready' = Append(ready, k)
    /\ UNCHANGED <<waiting, running>>

(***************************************************************************)
(* The voice client (discord.py), as the bot uses it.                      *)
(***************************************************************************)
NoPlayer == [state |-> "none", song |-> NoSong, stale |-> FALSE]

vc_is_playing == player.state = "playing"
vc_is_paused == player.state = "paused"

\* voice_client.stop(): the player ends, and its thread will call after
vc_stop ==
    IF player.state = "none"
    THEN UNCHANGED <<player, callbacks>>
    ELSE player' = NoPlayer /\ callbacks' = callbacks + 1

\* stop() can be modelled while the pending after_playing calls are in bound
StopInBound == player.state = "none" \/ callbacks < MaxCallbacks

(***************************************************************************)
(* MusicBot.play_next (discord_bot.py).                                    *)
(***************************************************************************)
\* a play_next that returns after a failure without calling itself
RetryStops(k) == Finish(k, FALSE)
\* a play_next that tries the same song once more after a failure
RetrySameSong(k) == Continue(k, k)
\* after a failure: the message goes out when a channel is set (an await),
\* then play_next calls itself
Retry(k) ==
    LET k2 == [k EXCEPT !.pc = "retry", !.song = NoSong, !.url = NoUrl, !.stale = FALSE]
    IN  IF current_channel THEN Suspend(k, k2, FALSE) ELSE Continue(k, k2)

\* a play_next that returns without a voice client and leaves is_playing
\* as it is
PlayNextBeginKeepsFlag(k) ==
    IF voice_client = 0
    THEN /\ Finish(k, FALSE)
         /\ UNCHANGED <<is_playing, ip_writer, queue, current_track, searched, failed>>
    ELSE /\ CanAcquire
         /\ IF queue = <<>>
            THEN /\ is_playing' = FALSE
                 /\ ip_writer' = "loop"
                 /\ Finish(k, FALSE)
                 /\ UNCHANGED <<queue, current_track, searched, failed>>
            ELSE /\ current_track' = PopLeft(queue).value
                 /\ queue' = PopLeft(queue).rest
                 /\ is_playing' = TRUE
                 /\ ip_writer' = "loop"
                 /\ searched' = <<>>
                 /\ UNCHANGED failed
                 /\ LET k2 == [k EXCEPT !.kind = "play_next", !.pc = "resolve",
                                        !.song = PopLeft(queue).value,
                                        !.url = NoUrl, !.stale = FALSE,
                                        !.sess = 0]
                    IN  IF SourceOf(k2.song) = "spotify" /\ current_channel
                        THEN Suspend(k, k2, FALSE)
                        ELSE Continue(k, k2)

\* lines 306-317: no voice client, or an empty queue, ends the coroutine
\* with is_playing False; otherwise the head is dequeued
PlayNextBegin(k) ==
    IF voice_client = 0
    THEN /\ is_playing' = FALSE
         /\ ip_writer' = "loop"
         /\ Finish(k, FALSE)
         /\ UNCHANGED <<queue, current_track, searched, failed>>
    ELSE /\ CanAcquire
         /\ IF queue = <<>>
            THEN /\ is_playing' = FALSE
                 /\ ip_writer' = "loop"
                 /\ Finish(k, FALSE)
                 /\ UNCHANGED <<queue, current_track, searched, failed>>
            ELSE /\ current_track' = PopLeft(queue).value
                 /\ queue' = PopLeft(queue).rest
                 /\ is_playing' = TRUE
                 /\ ip_writer' = "loop"
                 /\ searched' = <<>>
                 /\ UNCHANGED failed
                 /\ LET k2 == [k EXCEPT !.kind = "play_next", !.pc = "resolve",
                                        !.song = PopLeft(queue).value,
                                        !.url = NoUrl, !.stale = FALSE,
                                        !.sess = 0]
                    IN  IF SourceOf(k2.song) = "spotify" /\ current_channel
                        THEN Suspend(k, k2, FALSE)
                        ELSE Continue(k, k2)

\* play_next is entered: by a scheduled coroutine, or by its own recursion
pn_start(k) ==
    /\ k.kind = "play_next"
    /\ k.pc \in {"start", "retry"}
    /\ PlayNextBegin(k)
    /\ UNCHANGED <<max_size, lock, thr, last, hvars, voice_client, connected,
                   current_channel, current_guild_id, player, callbacks,
                   acked, njoins, wvars>>

\* lines 319-365: the searches and the extraction, all blocking calls
pn_resolve(k) ==
    /\ k.kind = "play_next"
    /\ k.pc = "resolve"
    /\ LET r == Resolve(Song(k.song))
       IN  /\ searched' = r.queries
           /\ IF r.audio = 0
              THEN Retry(k) /\ failed' = failed \cup {k.song}
              ELSE Continue(k, [k EXCEPT !.pc = "play", !.url = r.url])
                   /\ UNCHANGED failed
    /\ UNCHANGED <<qvars, hvars, bvars, acked, njoins, wvars, ip_writer>>

\* voice_client.play raises without a voice client, when it is not
\* connected and when it is already playing
PlayRaises == voice_client = 0 \/ ~connected \/ vc_is_playing

\* lines 372-404: the hand-off to the voice client; an exception goes to
\* the except clause, which calls play_next again
pn_play(k) ==
    /\ k.kind = "play_next"
    /\ k.pc = "play"
    /\ IF PlayRaises
       THEN Retry(k) /\ UNCHANGED player
       ELSE /\ player' = [state |-> "playing", song |-> k.song, stale |-> k.stale]
            /\ Finish(k, FALSE)
    /\ UNCHANGED <<qvars, hvars, voice_client, connected, is_playing,
                   current_channel, current_guild_id, callbacks, acked,
                   njoins, wvars, gvars>>

(***************************************************************************)
(* The player thread.                                                      *)
(***************************************************************************)
\* the stream ends by itself or with an error
TrackEnds ==
    /\ vc_is_playing
    /\ callbacks < MaxCallbacks
    /\ player' = NoPlayer
    /\ callbacks' = callbacks + 1
    /\ UNCHANGED <<qvars, hvars, voice_client, connected, is_playing,
                   current_channel, current_guild_id, lvars, wvars, gvars>>

\* an after_playing that schedules nothing
after_playing_lost ==
    /\ callbacks > 0
    /\ callbacks' = callbacks - 1
    /\ UNCHANGED <<qvars, hvars, voice_client, connected, is_playing,
                   current_channel, current_guild_id, player, lvars,
                   wvars, gvars>>
\* after_playing: schedule play_next on the loop
after_playing ==
    /\ callbacks > 0
    /\ callbacks' = callbacks - 1
    /\ Schedule(NewTask("play_next", NoThread))
    /\ UNCHANGED <<qvars, hvars, voice_client, connected, is_playing,
                   current_channel, current_guild_id, player, acked, njoins,
                   wvars, gvars>>

(***************************************************************************)
(* The queue on its own, called directly from any number of threads.       *)
(***************************************************************************)
\* the services of the default world: the searches of a Spotify song find
\* nothing but for the fourth query, and every extraction works at once
FourthHits == [qr \in Queries |-> IF qr[Len(qr)].k = "title" /\ Len(qr) = 3
                                       /\ qr[2].k = " - " THEN 1 ELSE 0]
AllExtract == [u \in Urls |-> [n \in 1..Len(Formats) |-> "url"]]

\* MusicBot.__init__: no voice client, nothing playing
BotInit ==
    /\ voice_client = 0
    /\ connected = FALSE
    /\ is_playing = FALSE
    /\ current_channel = FALSE
    /\ current_guild_id = FALSE
    /\ player = NoPlayer
    /\ callbacks = 0
    /\ ready = <<>>
    /\ waiting = EmptyBag
    /\ running = NoTask
    /\ acked = {}
    /\ njoins = 0
    /\ nrequests = 0
    /\ search_stub = FourthHits
    /\ extract_stub = AllExtract
    /\ ip_writer = "init"
    /\ searched = <<>>
    /\ failed = {}

QueueInit ==
    /\ queue = <<>>
    /\ current_track = NoSong
    /\ max_size \in 1..MaxCap
    /\ lock = NoThread
    /\ thr = [t \in Threads |-> IdleThread]
    /\ last = NoResult
    /\ accepted = <<>>
    /\ returned = <<>>
    /\ held = {}
    /\ altered = {}
    /\ BotInit

\* the histories: what add_song accepted and what get_next returned
Observe(t) ==
    /\ accepted' = IF last'.op = "add_song" /\ last'.ret = "true"
                   THEN Append(accepted, thr[t].arg) ELSE accepted
    /\ returned' = IF last'.op = "get_next" /\ last'.val # NoSong
                   THEN Append(returned, last'.val) ELSE returned
    /\ UNCHANGED <<held, altered>>

AddSongStep(t) ==
    \/ \E song \in Tracks : add_song_enter(t, song)
    \/ add_song_check(t)
    \/ add_song_append(t)

GetNextStep(t) == get_next_enter(t) \/ get_next_body(t)

\* add_song and get_next only, with the histories kept
FifoAddSong == \E t \in Threads :
    /\ Len(accepted) < MaxAdds
    /\ AddSongStep(t)
    /\ Observe(t)
    /\ UNCHANGED cvars
FifoGetNext == \E t \in Threads : GetNextStep(t) /\ Observe(t) /\ UNCHANGED cvars
FifoNext == FifoAddSong \/ FifoGetNext
FifoSpec == QueueInit /\ [][FifoNext]_vars

AddSong == \E t \in Threads : AddSongStep(t) /\ UNCHANGED <<hvars, cvars>>

GetNext == \E t \in Threads : GetNextStep(t) /\ UNCHANGED <<hvars, cvars>>

RemoveAtIndex == \E t \in Threads :
    /\ \/ \E index \in -1..MaxCap : remove_at_index_enter(t, index)
       \/ remove_at_index_body(t)
    /\ UNCHANGED <<hvars, cvars>>

Clear == \E t \in Threads :
    /\ clear_enter(t) \/ clear_body(t)
    /\ UNCHANGED <<hvars, cvars>>

GetQueueList == \E t \in Threads :
    /\ \/ get_queue_list_enter(t)
       \/ get_queue_list_test(t)
       \/ get_queue_list_body(t)
    /\ UNCHANGED <<accepted, returned, altered, cvars>>

Size == \E t \in Threads :
    /\ size_enter(t) \/ size_body(t)
    /\ UNCHANGED <<hvars, cvars>>

ShuffleQueue == \E t \in Threads :
    /\ shuffle_queue_enter(t) \/ shuffle_queue_body(t)
    /\ UNCHANGED <<hvars, cvars>>

\* every queue operation and the web shuffle
QueueNext ==
    \/ AddSong
    \/ GetNext
    \/ RemoveAtIndex
    \/ Clear
    \/ GetQueueList
    \/ Size
    \/ ShuffleQueue
QueueSpec == QueueInit /\ [][QueueNext]_vars

(***************************************************************************)
(* A caller keeps the list get_queue_list() returned and changes it: it    *)
(* appends an entry, removes one, or assigns to a field of an entry's      *)
(* 'song' dict.  A change reaches the queue only through an object of the  *)
(* queue that the list shares (held).                                      *)
(***************************************************************************)
HoldsList == last.op = "get_queue_list" /\ last.ret = "none"

\* returned.append(entry), with an entry for song 1
returned_append ==
    /\ HoldsList
    /\ Len(last.view) <= MaxCap
    /\ last' = [last EXCEPT !.view =
                   Append(@, [song |-> to_dict(Song(1)), current |-> FALSE])]
    /\ queue' = IF TheDeque \in held THEN Append(queue, 1) ELSE queue
    /\ UNCHANGED <<current_track, max_size, lock, thr, hvars, cvars>>

\* del returned[0]
returned_remove ==
    /\ HoldsList
    /\ last.view # <<>>
    /\ last' = [last EXCEPT !.view = Tail(@)]
    /\ queue' = IF TheDeque \in held /\ queue # <<>> THEN Tail(queue) ELSE queue
    /\ UNCHANGED <<current_track, max_size, lock, thr, hvars, cvars>>

\* returned[j]['song']['title'] = ...
returned_alter ==
    /\ HoldsList
    /\ \E j \in DOMAIN last.view :
          /\ last.view[j].song.title # Str("altered", 0)
          /\ last' = [last EXCEPT !.view[j].song.title = Str("altered", 0)]
          /\ altered' = IF SongDict(last.view[j].song.id) \in held
                        THEN altered \cup {last.view[j].song.id}
                        ELSE altered
    /\ UNCHANGED <<queue, current_track, max_size, lock, thr, accepted,
                   returned, held, cvars>>

CopyNext ==
    \/ AddSong
    \/ GetNext
    \/ GetQueueList
    \/ returned_append
    \/ returned_remove
    \/ returned_alter
CopySpec == QueueInit /\ [][CopyNext]_vars

(***************************************************************************)
(* The bot's commands (discord_bot.py), each a coroutine on the loop.      *)
(***************************************************************************)
HasTask(kind) ==
    \/ running.kind = kind
    \/ \E j \in DOMAIN ready : ready[j].kind = kind
    \/ \E x \in BagToSet(waiting) : x.kind = kind

\* a !join, !leave, !skip or !stop message arrives
CommandArrives ==
    /\ \E kind \in {"join", "leave", "skip", "stop"} :
          /\ ~HasTask(kind)
          /\ IF kind = "join"
             THEN /\ njoins < MaxSessions
                  /\ njoins' = njoins + 1
                  /\ Schedule([NewTask(kind, NoThread) EXCEPT !.sess = njoins + 1])
             ELSE /\ Schedule(NewTask(kind, NoThread))
                  /\ UNCHANGED njoins
    /\ UNCHANGED <<qvars, hvars, bvars, acked, wvars, gvars>>

\* join_voice, lines 50-60: move the voice client, or connect a new one
join_start(k) ==
    /\ k.kind = "join"
    /\ k.pc = "start"
    /\ Suspend(k, [k EXCEPT !.pc = IF voice_client # 0 THEN "moved" ELSE "connecting"], FALSE)
    /\ UNCHANGED <<qvars, hvars, bvars, acked, njoins, wvars, gvars>>

\* join_voice, lines 60-66: the connection is made
join_connected(k) ==
    /\ k.kind = "join"
    /\ k.pc \in {"connecting", "moved"}
    /\ IF k.pc = "connecting"
       THEN voice_client' = k.sess /\ connected' = TRUE
       ELSE UNCHANGED <<voice_client, connected>>
    /\ current_channel' = TRUE
    /\ current_guild_id' = TRUE
    /\ Suspend(k, [k EXCEPT !.pc = "join_play"], FALSE)
    /\ UNCHANGED <<qvars, hvars, is_playing, player, callbacks, acked, njoins,
                   wvars, gvars>>

\* a join_voice that ends after its message and never calls play_next
join_play_never(k) ==
    /\ k.kind = "join"
    /\ k.pc = "join_play"
    /\ Finish(k, FALSE)
    /\ UNCHANGED <<queue, current_track, is_playing, gvars>>
    /\ UNCHANGED <<max_size, lock, thr, last, hvars, voice_client, connected,
                   current_channel, current_guild_id, player, callbacks,
                   acked, njoins, wvars>>

\* join_voice, lines 68-69: if not self.is_playing: await self.play_next()
join_play(k) ==
    /\ k.kind = "join"
    /\ k.pc = "join_play"
    /\ IF is_playing
       THEN Finish(k, FALSE) /\ UNCHANGED <<queue, current_track, is_playing, gvars>>
       ELSE PlayNextBegin(k)
    /\ UNCHANGED <<max_size, lock, thr, last, hvars, voice_client, connected,
                   current_channel, current_guild_id, player, callbacks,
                   acked, njoins, wvars>>

\* leave_voice, lines 78-79: disconnect() stops the player, then awaits
leave_start(k) ==
    /\ k.kind = "leave"
    /\ k.pc = "start"
    /\ StopInBound
    /\ IF voice_client # 0
       THEN /\ vc_stop
            /\ connected' = FALSE
            /\ Suspend(k, [k EXCEPT !.pc = "left"], TRUE)
       ELSE /\ Finish(k, FALSE)
            /\ UNCHANGED <<player, callbacks, connected>>
    /\ UNCHANGED <<qvars, hvars, voice_client, is_playing, current_channel,
                   current_guild_id, acked, njoins, wvars, gvars>>

\* leave_voice, lines 80-84
leave_done(k) ==
    /\ k.kind = "leave"
    /\ k.pc = "left"
    /\ voice_client' = 0
    /\ is_playing' = FALSE
    /\ ip_writer' = "loop"
    /\ current_channel' = FALSE
    /\ current_guild_id' = FALSE
    /\ Finish(k, FALSE)
    /\ UNCHANGED <<qvars, hvars, connected, player, callbacks, acked, njoins,
                   wvars,
                   searched, failed>>

\* skip_song (the command), lines 203-207
skip_command(k) ==
    /\ k.kind = "skip"
    /\ StopInBound
    /\ IF voice_client # 0 /\ vc_is_playing
       THEN vc_stop
       ELSE UNCHANGED <<player, callbacks>>
    /\ Finish(k, FALSE)
    /\ UNCHANGED <<qvars, hvars, voice_client, connected, is_playing,
                   current_channel, current_guild_id, acked, njoins, wvars, gvars>>

\* stop_music (the command), lines 212-218
stop_command(k) ==
    /\ k.kind = "stop"
    /\ StopInBound
    /\ IF voice_client # 0
       THEN /\ CanAcquire
            /\ vc_stop
            /\ queue' = <<>>
            /\ is_playing' = FALSE
            /\ ip_writer' = "loop"
            /\ Finish(k, TRUE)
       ELSE /\ Finish(k, FALSE)
            /\ UNCHANGED <<player, callbacks, queue, is_playing, ip_writer>>
    /\ UNCHANGED <<current_track, max_size, lock, thr, last, hvars, voice_client,
                   connected, current_channel, current_guild_id, acked, njoins,
                   wvars,
                   searched, failed>>

\* voice_client.disconnect(), scheduled by the web leave handler on the
\* voice client it read
disconnect_run(k) ==
    /\ k.kind = "disconnect"
    /\ StopInBound
    /\ IF k.sess = voice_client /\ connected
       THEN /\ vc_stop
            /\ connected' = FALSE
            /\ Finish(k, TRUE)
       ELSE /\ Finish(k, FALSE)
            /\ UNCHANGED <<player, callbacks, connected>>
    /\ acked' = acked \cup {k.owner}
    /\ UNCHANGED <<qvars, hvars, voice_client, is_playing, current_channel,
                   current_guild_id, njoins, wvars, gvars>>

(***************************************************************************)
(* The web handlers (web_interface.py), each run by a request thread.      *)
(* require_guild_access lets a request in when the bot has a current       *)
(* guild.                                                                  *)
(***************************************************************************)
GuildAccess == current_guild_id

\* the handler returns its JSON answer: success is ret
Answer(t, h, ret) ==
    /\ thr' = [thr EXCEPT ![t] = IdleThread]
    /\ last' = [op |-> h, ret |-> ret, val |-> 0, view |-> <<>>]

\* a request thread marks the resolutions in flight as overtaken by a stop
MarkFromThread ==
    /\ waiting' = MarkBag(waiting)
    /\ running' = MarkTask(running)
    /\ UNCHANGED ready

\* add_to_queue, lines 338-345
add_to_queue_enter(t, song) ==
    /\ thr[t].pc = "idle"
    /\ GuildAccess
    /\ thr' = [thr EXCEPT ![t] = [pc |-> "atq_add", h |-> "add_to_queue",
                                  op |-> "none", arg |-> song]]
    /\ last' = NoResult
    /\ UNCHANGED <<queue, current_track, max_size, lock, hvars, bvars, lvars, wvars, gvars>>

\* add_to_queue, lines 349-352 and 358: start playback when connected and idle
add_to_queue_nudge(t) ==
    /\ thr[t].pc = "atq_nudge"
    /\ IF voice_client # 0 /\ ~is_playing
       THEN /\ Schedule(NewTask("play_next", NoThread))
            /\ thr' = [thr EXCEPT ![t].pc = "atq_wait"]
            /\ UNCHANGED last
       ELSE /\ Answer(t, "add_to_queue", "true")
            /\ UNCHANGED <<ready, waiting, running>>
    /\ UNCHANGED <<queue, current_track, max_size, lock, hvars, bvars, acked,
                   njoins, wvars, gvars>>

\* a handler that answers an error when the wait for play_next fails
add_to_queue_wait_fatal(t) ==
    /\ thr[t].pc = "atq_wait"
    /\ \E ret \in {"true", "false"} : Answer(t, "add_to_queue", ret)
    /\ UNCHANGED <<queue, current_track, max_size, lock, hvars, cvars>>

\* add_to_queue, lines 353-358: future.result(timeout=10) returns or raises;
\* the handler answers success either way
add_to_queue_wait(t) ==
    /\ thr[t].pc = "atq_wait"
    /\ Answer(t, "add_to_queue", "true")
    /\ UNCHANGED <<queue, current_track, max_size, lock, hvars, cvars>>

\* pause_song, lines 404-412
pause_song(t) ==
    /\ thr[t].pc = "idle"
    /\ GuildAccess
    /\ IF voice_client # 0 /\ vc_is_playing
       THEN player' = [player EXCEPT !.state = "paused"] /\ Answer(t, "pause_song", "true")
       ELSE UNCHANGED player /\ Answer(t, "pause_song", "false")
    /\ UNCHANGED <<queue, current_track, max_size, lock, hvars, voice_client,
                   connected, is_playing, current_channel, current_guild_id,
                   callbacks, lvars, wvars, gvars>>

\* resume_song, lines 422-430
resume_song(t) ==
    /\ thr[t].pc = "idle"
    /\ GuildAccess
    /\ IF voice_client # 0 /\ vc_is_paused
       THEN player' = [player EXCEPT !.state = "playing"] /\ Answer(t, "resume_song", "true")
       ELSE UNCHANGED player /\ Answer(t, "resume_song", "false")
    /\ UNCHANGED <<queue, current_track, max_size, lock, hvars, voice_client,
                   connected, is_playing, current_channel, current_guild_id,
                   callbacks, lvars, wvars, gvars>>

\* skip_song (the handler), lines 440-445
skip_song(t) ==
    /\ thr[t].pc = "idle"
    /\ GuildAccess
    /\ StopInBound
    /\ IF voice_client # 0 /\ vc_is_playing
       THEN vc_stop /\ Answer(t, "skip_song", "true")
       ELSE UNCHANGED <<player, callbacks>> /\ Answer(t, "skip_song", "false")
    /\ UNCHANGED <<queue, current_track, max_size, lock, hvars, voice_client,
                   connected, is_playing, current_channel, current_guild_id,
                   lvars, wvars, gvars>>

\* stop_song, lines 455-459: stop the player when it plays or is paused
stop_song_enter(t) ==
    /\ thr[t].pc = "idle"
    /\ GuildAccess
    /\ StopInBound
    /\ IF voice_client # 0 /\ (vc_is_playing \/ vc_is_paused)
       THEN /\ vc_stop
            /\ MarkFromThread
            /\ thr' = [thr EXCEPT ![t] = [pc |-> "stop_write", h |-> "stop_song",
                                          op |-> "none", arg |-> 0]]
            /\ last' = NoResult
       ELSE /\ Answer(t, "stop_song", "false")
            /\ UNCHANGED <<player, callbacks, ready, waiting, running>>
    /\ UNCHANGED <<queue, current_track, max_size, lock, hvars, voice_client,
                   connected, is_playing, current_channel, current_guild_id,
                   acked, njoins, wvars, gvars>>

\* stop_song, lines 460-463
stop_song_write(t) ==
    /\ thr[t].pc = "stop_write"
    /\ is_playing' = FALSE
    /\ ip_writer' = "flask"
    /\ current_track' = NoSong
    /\ Answer(t, "stop_song", "true")
    /\ UNCHANGED <<queue, max_size, lock, hvars, voice_client, connected,
                   current_channel, current_guild_id, player, callbacks, lvars,
                   wvars,
                   searched, failed>>

\* force_play, lines 475-479
force_play_enter(t) ==
    /\ thr[t].pc = "idle"
    /\ GuildAccess
    /\ IF voice_client = 0 \/ is_playing
       THEN Answer(t, "force_play", "false")
       ELSE /\ thr' = [thr EXCEPT ![t] = [pc |-> "fp_size", h |-> "force_play",
                                          op |-> "none", arg |-> 0]]
            /\ last' = NoResult
    /\ UNCHANGED <<queue, current_track, max_size, lock, hvars, bvars, lvars, wvars, gvars>>

\* force_play, lines 481-485: size() under the lock, then schedule play_next
force_play_size(t) ==
    /\ thr[t].pc = "fp_size"
    /\ CanAcquire
    /\ IF Len(queue) = 0
       THEN /\ Answer(t, "force_play", "false")
            /\ UNCHANGED <<ready, waiting, running>>
       ELSE /\ Schedule(NewTask("play_next", NoThread))
            /\ thr' = [thr EXCEPT ![t].pc = "fp_wait"]
            /\ UNCHANGED last
    /\ UNCHANGED <<queue, current_track, max_size, lock, hvars, bvars, acked,
                   njoins, wvars, gvars>>

\* force_play, lines 486-491: the result arrives, or the wait times out
force_play_wait(t) ==
    /\ thr[t].pc = "fp_wait"
    /\ \E ret \in {"true", "false"} : Answer(t, "force_play", ret)
    /\ UNCHANGED <<queue, current_track, max_size, lock, hvars, cvars>>

\* leave_channel, lines 515-519: schedule disconnect() of the voice client
leave_channel_enter(t) ==
    /\ thr[t].pc = "idle"
    /\ GuildAccess
    /\ IF voice_client # 0
       THEN /\ Schedule([NewTask("disconnect", t) EXCEPT !.sess = voice_client])
            /\ acked' = acked \ {t}
            /\ thr' = [thr EXCEPT ![t] = [pc |-> "lc_wait", h |-> "leave_channel",
                                          op |-> "none", arg |-> 0]]
            /\ last' = NoResult
       ELSE /\ Answer(t, "leave_channel", "false")
            /\ UNCHANGED lvars
    /\ UNCHANGED <<queue, current_track, max_size, lock, hvars, bvars, njoins,
                   wvars, gvars>>

\* leave_channel, line 520: future.result(timeout=5) returns once the
\* disconnect is done, or raises, and then the handler answers the error
leave_channel_wait(t) ==
    /\ thr[t].pc = "lc_wait"
    /\ \/ t \in acked /\ thr' = [thr EXCEPT ![t].pc = "lc_write"] /\ UNCHANGED last
       \/ Answer(t, "leave_channel", "false")
    /\ UNCHANGED <<queue, current_track, max_size, lock, hvars, cvars>>

\* leave_channel, line 521
leave_channel_write(t) ==
    /\ thr[t].pc = "lc_write"
    /\ voice_client' = 0
    /\ thr' = [thr EXCEPT ![t].pc = "lc_write2"]
    /\ UNCHANGED <<queue, current_track, max_size, lock, last, hvars, connected,
                   is_playing, current_channel, current_guild_id, player,
                   callbacks, lvars, wvars, gvars>>

\* leave_channel, lines 522-526
leave_channel_done(t) ==
    /\ thr[t].pc = "lc_write2"
    /\ is_playing' = FALSE
    /\ ip_writer' = "flask"
    /\ current_channel' = FALSE
    /\ current_guild_id' = FALSE
    /\ Answer(t, "leave_channel", "true")
    /\ UNCHANGED <<queue, current_track, max_size, lock, hvars, voice_client,
                   connected, player, callbacks, lvars, wvars,
                   searched, failed>>

(***************************************************************************)
(* The whole program: request threads, the event loop and the player       *)
(* threads.                                                                *)
(***************************************************************************)
Init ==
    /\ queue = <<>>
    /\ current_track = NoSong
    /\ max_size = MaxCap
    /\ lock = NoThread
    /\ thr = [t \in Threads |-> IdleThread]
    /\ last = NoResult
    /\ accepted = <<>>
    /\ returned = <<>>
    /\ held = {}
    /\ altered = {}
    /\ BotInit

\* a command or a web request comes in
Request == nrequests < MaxRequests /\ nrequests' = nrequests + 1

\* the loop thread runs a coroutine of play_next
PlayNext ==
    /\ \E k \in Candidates : pn_start(k) \/ pn_resolve(k) \/ pn_play(k)
    /\ UNCHANGED nrequests

Arrival == CommandArrives /\ Request

\* the loop thread runs a command's coroutine
Command ==
    /\ \E k \in Candidates :
          \/ join_start(k)
          \/ join_connected(k)
          \/ join_play(k)
          \/ leave_start(k)
          \/ leave_done(k)
          \/ skip_command(k)
          \/ stop_command(k)
    /\ UNCHANGED nrequests

Disconnect == (\E k \in Candidates : disconnect_run(k)) /\ UNCHANGED nrequests

Player == (TrackEnds \/ after_playing) /\ UNCHANGED nrequests

\* the player thread of a stopped stream makes its after_playing call
AfterPlaying == after_playing /\ UNCHANGED nrequests

WebAdd == \E t \in Threads :
    \/ (\E song \in Tracks : add_to_queue_enter(t, song)) /\ Request
    \/ /\ thr[t].h = "add_to_queue"
       /\ AddSongStep(t)
       /\ UNCHANGED <<hvars, cvars>>
    \/ add_to_queue_nudge(t) /\ UNCHANGED nrequests
    \/ add_to_queue_wait(t)

WebQueue == \E t \in Threads :
    \/ /\ GuildAccess
       /\ \/ \E index \in -1..1 : remove_at_index_enter(t, index)
          \/ clear_enter(t)
          \/ shuffle_queue_enter(t)
       /\ Request
       /\ UNCHANGED <<hvars, bvars, lvars, wvars, gvars>>
    \/ /\ \/ remove_at_index_body(t)
          \/ clear_body(t)
          \/ shuffle_queue_body(t)
       /\ UNCHANGED <<hvars, cvars>>

\* get_queue (GET /api/queue): get_queue_list() on the request thread
WebGetQueue == \E t \in Threads :
    \/ /\ get_queue_list_enter(t)
       /\ Request
       /\ UNCHANGED <<accepted, returned, altered, bvars, lvars, wvars, gvars>>
    \/ /\ get_queue_list_test(t) \/ get_queue_list_body(t)
       /\ UNCHANGED <<accepted, returned, altered, cvars>>

WebControl == \E t \in Threads :
    \/ /\ \/ pause_song(t)
          \/ resume_song(t)
          \/ skip_song(t)
          \/ stop_song_enter(t)
       /\ Request
    \/ force_play_enter(t) /\ Request
    \/ /\ \/ stop_song_write(t)
          \/ force_play_size(t)
       /\ UNCHANGED nrequests
    \/ force_play_wait(t)

WebLeave == \E t \in Threads :
    \/ leave_channel_enter(t) /\ Request
    \/ /\ \/ leave_channel_write(t)
          \/ leave_channel_done(t)
       /\ UNCHANGED nrequests
    \/ leave_channel_wait(t)

Next ==
    \/ Arrival
    \/ Command
    \/ PlayNext
    \/ Disconnect
    \/ Player
    \/ WebAdd
    \/ WebQueue
    \/ WebGetQueue
    \/ WebControl
    \/ WebLeave

Spec == Init /\ [][Next]_vars

(***************************************************************************)
(* The coordinator left to itself: a session is connected, songs are       *)
(* queued, one play_next is scheduled, and from then on only the event     *)
(* loop and the player threads act.  The search service is any of the      *)
(* services that answer each query with no result or with MaxHits results. *)
(***************************************************************************)
RECURSIVE SeqsUpTo(_, _)
SeqsUpTo(S, n) ==
    IF n = 0 THEN {<<>>}
    ELSE LET shorter == SeqsUpTo(S, n - 1)
         IN  shorter \cup {Append(q, x) : q \in {y \in shorter : Len(y) = n - 1}, x \in S}

AutoInit ==
    /\ queue \in SeqsUpTo(Tracks, MaxCap)
    /\ current_track = NoSong
    /\ max_size = MaxCap
    /\ lock = NoThread
    /\ thr = [t \in Threads |-> IdleThread]
    /\ last = NoResult
    /\ accepted = <<>>
    /\ returned = <<>>
    /\ held = {}
    /\ altered = {}
    /\ voice_client = 1
    /\ connected = TRUE
    /\ is_playing = FALSE
    /\ current_channel = TRUE
    /\ current_guild_id = TRUE
    /\ player = NoPlayer
    /\ callbacks = 0
    /\ ready = <<NewTask("play_next", NoThread)>>
    /\ waiting = EmptyBag
    /\ running = NoTask
    /\ acked = {}
    /\ njoins = 1
    /\ nrequests = 0
    /\ search_stub \in [Queries -> {0, MaxHits}]
    /\ extract_stub = AllExtract
    /\ ip_writer = "loop"
    /\ searched = <<>>
    /\ failed = {}

AutoNext == PlayNext \/ Player

\* the loop runs every coroutine that can go on
AutoSpec == AutoInit /\ [][AutoNext]_vars /\ WF_vars(PlayNext)

(***************************************************************************)
(* The coordinator left to itself under faults: the queued songs are       *)
(* distinct, the searches for some Spotify songs find nothing, the         *)
(* extraction fails for some songs, and the voice connection may be lost   *)
(* (voice_client.play then raises).                                        *)
(***************************************************************************)
Distinct(q) == \A i, j \in DOMAIN q : i # j => q[i] # q[j]

\* the searches find nothing for the songs of lost, and a result with the
\* fourth query for the others
SearchWorld(lost) ==
    [qr \in Queries |-> IF qr[1].i \in lost THEN 0 ELSE FourthHits[qr]]

\* no format gives a stream URL for the songs of bad
ExtractWorld(bad) ==
    [u \in Urls |-> [n \in 1..Len(Formats) |->
                        IF u.q[1].i \in bad THEN "none" ELSE "url"]]

FaultInit ==
    /\ queue \in {q \in SeqsUpTo(Tracks, MaxCap) : Distinct(q)}
    /\ current_track = NoSong
    /\ max_size = MaxCap
    /\ lock = NoThread
    /\ thr = [t \in Threads |-> IdleThread]
    /\ last = NoResult
    /\ accepted = <<>>
    /\ returned = <<>>
    /\ held = {}
    /\ altered = {}
    /\ voice_client = 1
    /\ connected \in BOOLEAN
    /\ is_playing = FALSE
    /\ current_channel = TRUE
    /\ current_guild_id = TRUE
    /\ player = NoPlayer
    /\ callbacks = 0
    /\ ready = <<NewTask("play_next", NoThread)>>
    /\ waiting = EmptyBag
    /\ running = NoTask
    /\ acked = {}
    /\ njoins = 1
    /\ nrequests = 0
    /\ \E lost \in SUBSET {i \in Tracks : SourceOf(i) = "spotify"} :
          search_stub = SearchWorld(lost)
    /\ \E bad \in SUBSET Tracks : extract_stub = ExtractWorld(bad)
    /\ ip_writer = "loop"
    /\ searched = <<>>
    /\ failed = {}

\* the loop runs every coroutine that can go on, and the player threads
\* come to the end of their streams and call after_playing
FaultSpec == FaultInit /\ [][AutoNext]_vars /\ WF_vars(PlayNext) /\ WF_vars(Player)

(***************************************************************************)
(* The stream extraction on its own: get_audio_url is called with a URL    *)
(* under every behaviour of yt-dlp's extract_info, format by format: a     *)
(* stream URL, an info without one (or None), or an exception.             *)
(***************************************************************************)
Outcomes == {"url", "none", "raise"}

ExtractInit ==
    /\ queue = <<>>
    /\ current_track = NoSong
    /\ max_size = MaxCap
    /\ lock = NoThread
    /\ thr = [t \in Threads |-> IdleThread]
    /\ last = NoResult
    /\ accepted = <<>>
    /\ returned = <<>>
    /\ held = {}
    /\ altered = {}
    /\ voice_client = 0
    /\ connected = FALSE
    /\ is_playing = FALSE
    /\ current_channel = FALSE
    /\ current_guild_id = FALSE
    /\ player = NoPlayer
    /\ callbacks = 0
    /\ ready = <<>>
    /\ waiting = EmptyBag
    /\ running = NoTask
    /\ acked = {}
    /\ njoins = 0
    /\ nrequests = 0
    /\ search_stub = FourthHits
    /\ \E row \in [1..Len(Formats) -> Outcomes] :
          extract_stub = [u \in Urls |-> row]
    /\ ip_writer = "init"
    /\ searched = <<>>
    /\ failed = {}

\* YouTubeManager.get_audio_url(u) is called and returns
ExtractCall ==
    /\ \E u \in Urls :
          last' = [op |-> "get_audio_url",
                   ret |-> IF get_audio_url(u) = 0 THEN "none" ELSE "url",
                   val |-> get_audio_url(u),
                   view |-> <<>>]
    /\ UNCHANGED <<queue, current_track, max_size, lock, thr, hvars, cvars>>

ExtractSpec == ExtractInit /\ [][ExtractCall]_vars

(***************************************************************************)
(* Autoplay: a session is connected, the queue is empty and the            *)
(* coordinator is Idle (the state join_voice leaves behind); one song is   *)
(* then added through the web handler, by any request thread, and nothing  *)
(* else is asked of the bot.                                               *)
(***************************************************************************)
AddInit ==
    /\ queue = <<>>
    /\ current_track = NoSong
    /\ max_size = MaxCap
    /\ lock = NoThread
    /\ thr = [t \in Threads |-> IdleThread]
    /\ last = NoResult
    /\ accepted = <<>>
    /\ returned = <<>>
    /\ held = {}
    /\ altered = {}
    /\ voice_client = 1
    /\ connected = TRUE
    /\ is_playing = FALSE
    /\ current_channel = TRUE
    /\ current_guild_id = TRUE
    /\ player = NoPlayer
    /\ callbacks = 0
    /\ ready = <<>>
    /\ waiting = EmptyBag
    /\ running = NoTask
    /\ acked = {}
    /\ njoins = 1
    /\ nrequests = 0
    /\ \E lost \in SUBSET {i \in Tracks : SourceOf(i) = "spotify"} :
          search_stub = SearchWorld(lost)
    /\ \E bad \in SUBSET Tracks : extract_stub = ExtractWorld(bad)
    /\ ip_writer = "loop"
    /\ searched = <<>>
    /\ failed = {}

\* the one add request and the steps of its handler
AddRequests == WebAdd /\ nrequests' <= 1

\* a request thread goes on with the handler it is in
AddProgress == WebAdd /\ nrequests' = nrequests

AddNext == AddRequests \/ PlayNext \/ Player

\* the loop runs every coroutine that can go on, the player threads come
\* to the end of their streams and call after_playing, and a request
\* thread runs its handler to the end
AddSpec ==
    /\ AddInit
    /\ [][AddNext]_vars
    /\ WF_vars(PlayNext)
    /\ WF_vars(Player)
    /\ WF_vars(AddProgress)

(***************************************************************************)
(* Two web requests: a session is connected and Idle with an empty queue,  *)
(* every search and extraction works, and two requests of any kind come in *)
(* through the web handlers, on any request threads.                       *)
(***************************************************************************)
PairInit ==
    /\ queue = <<>>
    /\ current_track = NoSong
    /\ max_size = MaxCap
    /\ lock = NoThread
    /\ thr = [t \in Threads |-> IdleThread]
    /\ last = NoResult
    /\ accepted = <<>>
    /\ returned = <<>>
    /\ held = {}
    /\ altered = {}
    /\ voice_client = 1
    /\ connected = TRUE
    /\ is_playing = FALSE
    /\ current_channel = TRUE
    /\ current_guild_id = TRUE
    /\ player = NoPlayer
    /\ callbacks = 0
    /\ ready = <<>>
    /\ waiting = EmptyBag
    /\ running = NoTask
    /\ acked = {}
    /\ njoins = 1
    /\ nrequests = 0
    /\ search_stub = FourthHits
    /\ extract_stub = AllExtract
    /\ ip_writer = "loop"
    /\ searched = <<>>
    /\ failed = {}

\* no third request
TwoRequests == nrequests' <= 2

PairNext ==
    \/ WebAdd /\ TwoRequests
    \/ WebQueue /\ TwoRequests
    \/ WebGetQueue /\ TwoRequests
    \/ WebControl /\ TwoRequests
    \/ WebLeave /\ TwoRequests
    \/ PlayNext
    \/ Disconnect
    \/ Player

PairSpec == PairInit /\ [][PairNext]_vars

\* two web adds into the connected, idle session, and the loop; no stream
\* comes to its end meanwhile
TwoAdds == WebAdd /\ TwoRequests
TwoAddNext == TwoAdds \/ PlayNext
TwoAddSpec == PairInit /\ [][TwoAddNext]_vars

(***************************************************************************)
(* Access: the ten handlers that change the queue or control playback are  *)
(* wrapped in require_guild_access.  A request comes from a browser        *)
(* session without a user, from a member of the bot's current guild, or    *)
(* from a logged-in user who is not a member of it.                        *)
(***************************************************************************)
Anonymous == "anonymous"
Member == "member"
Stranger == "stranger"
Users == {Anonymous, Member, Stranger}

Guarded == {"add_to_queue", "remove_from_queue", "clear_queue", "shuffle_queue",
            "pause_song", "resume_song", "skip_song", "stop_song", "force_play",
            "leave_channel"}

\* user_has_access: the bot is in the guild and the user is a member of it
user_has_access(user) == user = Member

\* the decorator answers 401 or 403 and the handler is not called
Rejected(code) == \E t \in Threads, h \in Guarded :
    /\ thr[t].pc = "idle"
    /\ Answer(t, h, code)
    /\ Request
    /\ UNCHANGED <<queue, current_track, max_size, lock, hvars, bvars, lvars,
                   wvars, gvars>>

\* f(*args, **kwargs): one of the ten handlers is entered
WebEnters ==
    /\ WebAdd \/ WebQueue \/ WebControl \/ WebLeave
    /\ nrequests' = nrequests + 1

\* a handler that was entered goes on
WebContinues ==
    /\ WebAdd \/ WebQueue \/ WebControl \/ WebLeave
    /\ UNCHANGED nrequests

\* a decorator that asks for a logged-in user only
require_auth_only(user) ==
    IF user = Anonymous
    THEN Rejected("401")
    ELSE current_guild_id /\ WebEnters

\* require_guild_access, lines 68-80
require_guild_access(user) ==
    IF user = Anonymous
    THEN Rejected("401")
    ELSE IF ~current_guild_id
         THEN Rejected("403")
         ELSE IF ~user_has_access(user)
              THEN Rejected("403")
              ELSE WebEnters

GuardedRequest == (\E user \in Users : require_guild_access(user)) /\ TwoRequests

AuthNext ==
    \/ GuardedRequest
    \/ WebContinues
    \/ PlayNext
    \/ Disconnect
    \/ Player
AuthSpec == PairInit /\ [][AuthNext]_vars

(***************************************************************************)
(* One control request: a session is connected, distinct songs are queued  *)
(* (they were accepted in that order), and the coordinator is Idle or has  *)
(* a song playing or paused.  One pause, resume, skip, stop or force-play  *)
(* comes in through the web handlers; no stream comes to its end by itself *)
(* and nothing else is asked of the bot.                                   *)
(***************************************************************************)
ControlInit ==
    /\ queue \in {q \in SeqsUpTo(Tracks, MaxCap) : Distinct(q)}
    /\ max_size = MaxCap
    /\ lock = NoThread
    /\ thr = [t \in Threads |-> IdleThread]
    /\ last = NoResult
    /\ accepted = queue
    /\ returned = <<>>
    /\ held = {}
    /\ altered = {}
    /\ voice_client = 1
    /\ connected = TRUE
    /\ current_channel = TRUE
    /\ current_guild_id = TRUE
    /\ callbacks = 0
    /\ ready = <<>>
    /\ waiting = EmptyBag
    /\ running = NoTask
    /\ acked = {}
    /\ njoins = 1
    /\ nrequests = 0
    /\ search_stub = FourthHits
    /\ extract_stub = AllExtract
    /\ ip_writer = "loop"
    /\ searched = <<>>
    /\ failed = {}
    /\ \/ /\ current_track = NoSong
          /\ is_playing = FALSE
          /\ player = NoPlayer
       \/ /\ current_track \in Tracks
          /\ \A j \in DOMAIN queue : queue[j] # current_track
          /\ is_playing = TRUE
          /\ \E st \in {"playing", "paused"} :
                player = [state |-> st, song |-> current_track, stale |-> FALSE]

OneControl == WebControl /\ nrequests' <= 1
ControlNext == OneControl \/ PlayNext \/ AfterPlaying
ControlSpec == ControlInit /\ [][ControlNext]_vars

(***************************************************************************)
(* Joining: the coordinator is Idle, with or without a voice client left   *)
(* from before; distinct songs are queued (they were accepted in that      *)
(* order) and every search and extraction works.  One !join comes in; no   *)
(* stream comes to its end and nothing else is asked of the bot.           *)
(***************************************************************************)
JoinInit ==
    /\ queue \in {q \in SeqsUpTo(Tracks, MaxCap) : Distinct(q)}
    /\ current_track \in {NoSong} \cup {s \in Tracks : \A j \in DOMAIN queue : queue[j] # s}
    /\ max_size = MaxCap
    /\ lock = NoThread
    /\ thr = [t \in Threads |-> IdleThread]
    /\ last = NoResult
    /\ accepted = queue
    /\ returned = <<>>
    /\ held = {}
    /\ altered = {}
    /\ \/ /\ voice_client = 0
          /\ connected = FALSE
          /\ current_channel = FALSE
          /\ current_guild_id = FALSE
          /\ njoins = 0
       \/ /\ voice_client = 1
          /\ connected = TRUE
          /\ current_channel = TRUE
          /\ current_guild_id = TRUE
          /\ njoins = 1
    /\ is_playing = FALSE
    /\ player = NoPlayer
    /\ callbacks = 0
    /\ ready = <<>>
    /\ waiting = EmptyBag
    /\ running = NoTask
    /\ acked = {}
    /\ nrequests = 0
    /\ search_stub = FourthHits
    /\ extract_stub = AllExtract
    /\ ip_writer = "loop"
    /\ searched = <<>>
    /\ failed = {}

\* the !join message arrives
JoinArrives ==
    /\ CommandArrives
    /\ ready'[Len(ready')].kind = "join"
    /\ Request
    /\ nrequests' <= 1

\* the loop runs the join command
JoinCommand ==
    /\ \E k \in Candidates : join_start(k) \/ join_connected(k) \/ join_play(k)
    /\ UNCHANGED nrequests

JoinNext == JoinArrives \/ JoinCommand \/ PlayNext
JoinSpec == JoinInit /\ [][JoinNext]_vars

(***************************************************************************)
(* Skip and stop: the coordinator under faults, with one skip or stop      *)
(* asked of it, by a command or through the web handlers.                  *)
(***************************************************************************)
\* a !skip or !stop message arrives
SkipStopArrives ==
    /\ CommandArrives
    /\ ready'[Len(ready')].kind \in {"skip", "stop"}
    /\ Request
    /\ nrequests' <= 1

\* a skip or stop request comes in through the web
SkipStopRequest ==
    /\ \E t \in Threads : skip_song(t) \/ stop_song_enter(t)
    /\ Request
    /\ nrequests' <= 1

\* the loop runs the skip or stop command
SkipStopCommand ==
    /\ \E k \in Candidates : skip_command(k) \/ stop_command(k)
    /\ UNCHANGED nrequests

\* the request thread goes on with stop_song
StopSongWrite == (\E t \in Threads : stop_song_write(t)) /\ UNCHANGED nrequests

SkipStopNext ==
    \/ SkipStopArrives
    \/ SkipStopRequest
    \/ SkipStopCommand
    \/ StopSongWrite
    \/ PlayNext
    \/ Player

\* the loop runs every coroutine that can go on, the player threads call
\* after_playing, and a request thread runs its handler to the end
SkipStopSpec ==
    /\ FaultInit
    /\ [][SkipStopNext]_vars
    /\ WF_vars(PlayNext)
    /\ WF_vars(Player)
    /\ WF_vars(SkipStopCommand)
    /\ WF_vars(StopSongWrite)

(***************************************************************************)
(* One request: a session is connected with distinct songs queued, every   *)
(* search and extraction works, and either a play_next is scheduled or a   *)
(* song is playing or paused; one command or web request of any kind       *)
(* comes in while the coordinator plays through the queue.                 *)
(***************************************************************************)
FrameInit ==
    /\ queue \in {q \in SeqsUpTo(Tracks, MaxCap) : Distinct(q)}
    /\ max_size = MaxCap
    /\ lock = NoThread
    /\ thr = [t \in Threads |-> IdleThread]
    /\ last = NoResult
    /\ accepted = <<>>
    /\ returned = <<>>
    /\ held = {}
    /\ altered = {}
    /\ voice_client = 1
    /\ connected = TRUE
    /\ current_channel = TRUE
    /\ current_guild_id = TRUE
    /\ callbacks = 0
    /\ waiting = EmptyBag
    /\ running = NoTask
    /\ acked = {}
    /\ njoins = 1
    /\ nrequests = 0
    /\ search_stub = FourthHits
    /\ extract_stub = AllExtract
    /\ ip_writer = "loop"
    /\ searched = <<>>
    /\ failed = {}
    /\ \/ /\ current_track = NoSong
          /\ is_playing = FALSE
          /\ player = NoPlayer
          /\ ready = <<NewTask("play_next", NoThread)>>
       \/ /\ current_track \in Tracks
          /\ \A j \in DOMAIN queue : queue[j] # current_track
          /\ is_playing = TRUE
          /\ \E st \in {"playing", "paused"} :
                player = [state |-> st, song |-> current_track, stale |-> FALSE]
          /\ ready = <<>>

\* no second request
OneRequest == nrequests' <= 1

FrameNext ==
    \/ Arrival /\ OneRequest
    \/ Command
    \/ PlayNext
    \/ Disconnect
    \/ Player
    \/ WebAdd /\ OneRequest
    \/ WebQueue /\ OneRequest
    \/ WebControl /\ OneRequest
    \/ WebLeave /\ OneRequest

FrameSpec == FrameInit /\ [][FrameNext]_vars

(***************************************************************************)
(* Leaving: a song plays and distinct songs are queued behind it; one      *)
(* leave comes in, as the !leave command or through the web handler.  No   *)
(* stream comes to its end by itself and nothing else is asked of the bot, *)
(* so that whatever happens to the queue is the leave's doing.             *)
(***************************************************************************)
LeaveInit ==
    /\ FrameInit
    /\ player.state = "playing"
    /\ queue # <<>>

\* a !leave message arrives
LeaveArrives ==
    /\ CommandArrives
    /\ ready'[Len(ready')].kind = "leave"
    /\ Request
    /\ OneRequest

\* the loop runs the leave command
LeaveCommand ==
    /\ \E k \in Candidates : leave_start(k) \/ leave_done(k)
    /\ UNCHANGED nrequests

LeaveNext ==
    \/ LeaveArrives
    \/ LeaveCommand
    \/ WebLeave /\ OneRequest
    \/ Disconnect
    \/ AfterPlaying
    \/ PlayNext

LeaveSpec == LeaveInit /\ [][LeaveNext]_vars

(***************************************************************************)
(* The concurrent-enqueue scenario: NAdders threads, an empty queue with   *)
(* room for all of them, each thread calls add_song once with its own      *)
(* song; once all have returned, any thread reads size() and               *)
(* get_queue_list().                                                       *)
(***************************************************************************)
AllAdded == Range(accepted) = Adders /\ \A t \in Adders : thr[t].pc = "idle"

ConcAddInit ==
    /\ queue = <<>>
    /\ current_track = NoSong
    /\ max_size \in NAdders..(NAdders + 1)
    /\ lock = NoThread
    /\ thr = [t \in Adders |-> IdleThread]
    /\ last = NoResult
    /\ accepted = <<>>
    /\ returned = <<>>
    /\ held = {}
    /\ altered = {}
    /\ BotInit

ConcAddSong == \E t \in Adders :
    /\ \/ t \notin Range(accepted) /\ add_song_enter(t, t)
       \/ add_song_check(t)
       \/ add_song_append(t)
    /\ Observe(t)
    /\ UNCHANGED cvars

ConcSize == \E t \in Adders :
    /\ (AllAdded /\ size_enter(t)) \/ size_body(t)
    /\ UNCHANGED <<hvars, cvars>>

ConcGetQueueList == \E t \in Adders :
    /\ \/ AllAdded /\ get_queue_list_enter(t)
       \/ get_queue_list_test(t)
       \/ get_queue_list_body(t)
    /\ UNCHANGED <<accepted, returned, altered, cvars>>

ConcAddNext == ConcAddSong \/ ConcSize \/ ConcGetQueueList
ConcAddSpec == ConcAddInit /\ [][ConcAddNext]_vars

(***************************************************************************)
(* The queue's properties.                                                 *)
(***************************************************************************)
IsPrefix(s, r) == Len(s) <= Len(r) /\ \A j \in 1..Len(s) : s[j] = r[j]

\* C1: under any interleaving of add_song and get_next calls, the songs
\* get_next has returned so far are, in order, a prefix of the songs whose
\* add_song returned True: none twice, none skipped, none out of order.
C1_Fifo == IsPrefix(returned, accepted)

\* two different songs came back, and a third accepted one is still queued
C1_Witness ==
    /\ Len(returned) = 2
    /\ returned[1] # returned[2]
    /\ Len(accepted) = 3

\* C2: in every state, whatever the interleaving of add_song, get_next,
\* remove_at_index, clear and the web shuffle, at most max_size songs are
\* queued.
C2_SizeWithinCapacity == Len(queue) <= max_size

\* a thread is inside add_song, past the lock, while the queue is full
C2_Witness == Len(queue) = max_size /\ \E t \in Threads : thr[t].pc = "add_check"

\* C3: an add_song that finds max_size songs queued returns False and leaves
\* the queued sequence and the current track as they were (so a repeated
\* call finds the same state and gives the same result).
C3_RejectWhenFull ==
    [][\A t \in Threads :
          (thr[t].pc = "add_check" /\ thr'[t] # thr[t] /\ Len(queue) >= max_size)
          => /\ last'.op = "add_song"
             /\ last'.ret = "false"
             /\ queue' = queue
             /\ current_track' = current_track]_vars

\* add_song has just returned False on a full queue with a current track set
C3_Witness ==
    /\ last.op = "add_song"
    /\ last.ret = "false"
    /\ Len(queue) = max_size
    /\ current_track # NoSong

Occurrences(s, x) == Cardinality({j \in DOMAIN s : s[j] = x})

\* C4: NAdders threads concurrently add one distinct song each to an empty
\* queue with max_size >= NAdders: every add_song returns True, and once all
\* have returned the queue holds NAdders songs, size() is NAdders and
\* get_queue_list() holds each of the ids exactly once.
C4_ConcurrentAdds ==
    /\ last.op = "add_song" => last.ret = "true"
    /\ AllAdded =>
          /\ Len(queue) = NAdders
          /\ \A i \in Adders : Occurrences(queue, i) = 1
    /\ last.op = "size" => last.val = NAdders
    /\ last.op = "get_queue_list" =>
          /\ Len(last.view) = NAdders
          /\ \A i \in Adders :
                Cardinality({j \in DOMAIN last.view : last.view[j].song.id = i}) = 1

\* get_queue_list() has returned all the ids, in an order other than the
\* threads' own
C4_Witness ==
    /\ last.op = "get_queue_list"
    /\ Len(last.view) = NAdders
    /\ last.view[1].song.id = NAdders
    /\ ~last.view[1].current

\* the play_next coroutines between dequeuing a track and the end of its
\* hand-off to the voice client
InFlightCount ==
    (IF InFlight(running) THEN 1 ELSE 0)
    + Copies({x \in BagToSet(waiting) : InFlight(x)}, waiting)

\* C5: in every state at most one play_next is between dequeuing a track
\* and finishing its hand-off to the voice client, and none is there while
\* the voice client is playing a track.
C5_OneTrackAtATime ==
    /\ InFlightCount <= 1
    /\ InFlightCount = 1 => ~vc_is_playing

\* C6: is_playing is written only by code running on the event loop, never
\* by a request thread.
C6_LoopIsOnlyWriter == ip_writer # "flask"

\* a request thread is between the writes of leave_channel
InsideLeaveChannel == \E t \in Threads : thr[t].pc \in {"lc_write", "lc_write2"}

\* C7: once a disconnect is done (the leave command has run, or the web
\* leave handler has made its writes), is_playing is False and the queue's
\* current_track is None.
C7_DisconnectClears ==
    (njoins > 0 /\ voice_client = 0 /\ ~connected /\ ~HasTask("join")
         /\ ~InsideLeaveChannel)
    => (~is_playing /\ current_track = NoSong)

\* C8: a resolution that was in flight inside play_next when a disconnect
\* or a stop happened never starts playback.
C8_StaleResolutionDiscarded == ~player.stale

\* the four search variants of the claim, for a song of title ti, artist ar
Variants(ti, ar) ==
    <<ar \o Str(" ", 0) \o ti,
      ti \o Str(" ", 0) \o ar,
      ti,
      ar \o Str(" - ", 0) \o ti>>

\* the play_next coroutines that have a song dequeued
Resolving == {x \in {running} \cup BagToSet(waiting) : InFlight(x)}

\* C9: for a song of source 'spotify', play_next issues the queries
\* "{artist} {title}", "{title} {artist}", "{title}", "{artist} - {title}"
\* in that order, none after the first query with a non-empty result, and
\* plays the first result of that query; when only the fourth query has a
\* result, that result is the one played.
C9_SearchWaterfall ==
    /\ searched # <<>> =>
          LET v == Variants(Song(current_track).title, Song(current_track).artist)
          IN  \E n \in 1..4 :
                 /\ searched = SubSeq(v, 1, n)
                 /\ \A j \in 1..(n - 1) : search_stub[v[j]] = 0
                 /\ n < 4 => search_stub[v[n]] > 0
    /\ \A x \in Resolving :
          (x.pc = "play" /\ SourceOf(x.song) = "spotify") =>
              /\ searched # <<>>
              /\ search_stub[searched[Len(searched)]] > 0
              /\ x.url = [q |-> searched[Len(searched)], rank |-> 1]

\* only the fourth query has a result, and its first result is about to be
\* handed to the voice client
C9_Witness ==
    \E x \in Resolving :
        /\ x.pc = "play"
        /\ SourceOf(x.song) = "spotify"
        /\ Len(searched) = 4
        /\ x.url.q = searched[4]
        /\ x.url.rank = 1
        /\ search_stub[searched[4]] = MaxHits

\* no variant of the search finds song a
Unresolvable(a) ==
    /\ SourceOf(a) = "spotify"
    /\ \A j \in 1..4 :
          search_stub[Variants(Song(a).title, Song(a).artist)[j]] = 0

\* song b has a source that plays
Resolvable(b) == Resolve(Song(b)).audio # 0

\* play_next has dequeued song a, and song b is next in the queue
Dequeued(a, b) ==
    /\ \E x \in Resolving : x.pc = "resolve" /\ x.song = a
    /\ queue # <<>>
    /\ Head(queue) = b

\* C10: when no search variant finds the dequeued song T1 and a resolvable
\* song T2 is next in the queue, T2 comes to be played without any command
\* or request.
C10_SkipsUnresolvable ==
    \A b \in Tracks :
        (\E a \in Tracks : Unresolvable(a) /\ Resolvable(b) /\ Dequeued(a, b))
        ~> (vc_is_playing /\ player.song = b)

\* all four queries for T1 came back empty, play_next is about to call
\* itself, and a resolvable T2 is next in the queue
C10_Witness ==
    /\ \E x \in BagToSet(waiting) : x.kind = "play_next" /\ x.pc = "retry"
    /\ Len(searched) = 4
    /\ Unresolvable(current_track)
    /\ queue # <<>>
    /\ Resolvable(Head(queue))
    /\ ~vc_is_playing

\* C11: a song whose search or extraction has failed is skipped for good:
\* it is not put back into the queue, and no play_next holds it for another
\* search or extraction.
C11_FailedNeverRetried ==
    \A a \in failed :
        /\ \A j \in DOMAIN queue : queue[j] # a
        /\ \A x \in Resolving : x.song # a

\* a song has failed and the voice client plays the one queued behind it
C11_Witness ==
    /\ failed # {}
    /\ vc_is_playing
    /\ player.song \notin failed
    /\ current_track = player.song

\* the first format, in the order of Formats, whose extraction gives a
\* stream URL under the outcomes row; 0 when none does
FirstWorking(row) ==
    IF \E n \in DOMAIN row : row[n] = "url"
    THEN CHOOSE n \in DOMAIN row :
            row[n] = "url" /\ \A j \in 1..(n - 1) : row[j] # "url"
    ELSE 0

\* C12: get_audio_url tries the primary format and, when that gives no
\* stream URL or raises, the fallback formats in their order; it returns
\* the first extraction that works, and None only when every format failed.
C12_FallbacksAfterAnyFailure ==
    last.op = "get_audio_url" =>
        \A u \in Urls : last.val = FirstWorking(extract_stub[u])

\* the coordinator is Idle with nothing queued and no coroutine left
IdleEmpty == TaskCount = 0 /\ ~is_playing /\ queue = <<>>

\* C13: with no further enqueues, every chain of automatic skips of
\* play_next (failed search, failed extraction, exception of
\* voice_client.play) comes to an end, with the voice client playing a
\* track or with the coordinator Idle and the queue empty.
C13_SkipChainEnds == (TaskCount > 0) ~> (vc_is_playing \/ IdleEmpty)

\* a chain has ended Idle on an empty queue after a failed resolution and
\* an exception of voice_client.play
C13_Witness ==
    /\ IdleEmpty
    /\ failed # {}
    /\ ~connected
    /\ current_track # NoSong
    /\ current_track \notin failed
    /\ ~vc_is_playing

\* add_song has just returned True to the add handler of thread t for song
\* a, the only a in the queue, with a voice client set and is_playing False
AddedWhileIdle(t, a) ==
    /\ thr[t].pc = "atq_nudge"
    /\ thr[t].arg = a
    /\ Occurrences(queue, a) = 1
    /\ voice_client # 0
    /\ ~is_playing
    /\ a \notin failed

\* song a has been dequeued by play_next and its resolution is done
DequeuedAndResolved(a) ==
    \/ \E x \in Resolving : x.song = a /\ x.pc = "play"
    \/ a \in failed

\* C14: a song accepted through the web add handler while a voice client
\* is set and is_playing is False comes to be dequeued and resolved by
\* play_next, with no further request.
C14_AddStartsPlayback ==
    \A a \in Tracks :
        (\E t \in Threads : AddedWhileIdle(t, a)) ~> DequeuedAndResolved(a)

\* the song added to the idle bot is resolved and about to be handed to the
\* voice client, and the handler is still waiting for play_next
C14_Witness ==
    \E t \in Threads :
        /\ thr[t].pc = "atq_wait"
        /\ \E x \in Resolving : x.pc = "play" /\ x.song = thr[t].arg
        /\ queue = <<>>
        /\ nrequests = 1

\* the play_next coroutines that are scheduled and have not begun
Scheduled == Cardinality({j \in DOMAIN ready :
                             ready[j].kind = "play_next" /\ ready[j].pc = "start"})

\* C15: every call of after_playing (the track ended by itself, with an
\* error, or by a skip or stop) schedules one play_next and no more; that
\* play_next comes to run, and when it does it dequeues the head of the
\* queue and goes on to resolve it, or, on an empty queue, sets is_playing
\* False.
C15_CallbackAdvancesOnce ==
    /\ [][callbacks' < callbacks =>
             /\ callbacks' = callbacks - 1
             /\ Scheduled' = Scheduled + 1
             /\ TaskCount' = TaskCount + 1]_vars
    /\ [][Scheduled' < Scheduled =>
             IF queue # <<>>
             THEN /\ queue' = Tail(queue)
                  /\ current_track' = Head(queue)
                  /\ \E x \in Resolving' : x.song = Head(queue) /\ x.pc = "resolve"
             ELSE ~is_playing' /\ TaskCount' = TaskCount - 1]_vars
    /\ (callbacks > 0) ~> (callbacks = 0 /\ Scheduled = 0)

\* a skip has ended the stream, and the play_next of its callback has
\* dequeued the next song
C15_Witness ==
    /\ last.op = "skip_song"
    /\ last.ret = "true"
    /\ callbacks = 0
    /\ ~vc_is_playing
    /\ \E x \in Resolving : x.pc = "resolve" /\ x.song = current_track

\* C16: skip and stop only end the current stream: no step of the skip or
\* stop handlers (the commands on the loop, the web handlers on a request
\* thread) changes is_playing or the current track; those change only in
\* the play_next that the completion callback schedules.
C16_NoSeparateCancellation ==
    [][(\/ \E t \in Threads : thr[t].h = "stop_song" /\ thr'[t].h # "stop_song"
        \/ nrequests' > nrequests /\ last'.op \in {"skip_song", "stop_song"}
        \/ /\ running = NoTask
           /\ ready # <<>>
           /\ Head(ready).kind \in {"skip", "stop"}
           /\ ready' = Tail(ready))
       => (is_playing' = is_playing /\ current_track' = current_track)]_vars

\* C17: once add_song has returned True to the web add handler, the
\* handler leaves the queue as it is and answers success, whether the
\* scheduled play_next has run, is running or has not begun when the
\* handler stops waiting for it.
C17_HandOffNotFatal ==
    [][\A t \in Threads :
          (thr[t].pc \in {"atq_nudge", "atq_wait"} /\ thr'[t] # thr[t])
          => /\ queue' = queue
             /\ thr'[t].pc = "idle" =>
                   (last'.op = "add_to_queue" /\ last'.ret = "true")]_vars

\* the handler has answered success while the play_next it scheduled has
\* not begun, and the song is in the queue
C17_Witness ==
    /\ last.op = "add_to_queue"
    /\ last.ret = "true"
    /\ Scheduled = 1
    /\ Len(queue) = 1
    /\ ~is_playing

\* the loop has run a step of the coroutine k
Ran(k) ==
    \/ running = k /\ running' # k
    \/ running = NoTask /\ ready # <<>> /\ Head(ready) = k /\ ready' = Tail(ready)
    \/ running = NoTask /\ CopiesIn(k, waiting') < CopiesIn(k, waiting)

\* a step of an explicit stop or of a disconnect
StopOrDisconnectStep ==
    \/ \E t \in Threads :
          thr[t].h \in {"stop_song", "leave_channel"} /\ thr'[t] # thr[t]
    \/ \E k \in Candidates :
          k.kind \in {"stop", "leave", "disconnect"} /\ Ran(k)

\* a step inside add_song, remove_at_index, clear or shuffle, or a whole
\* skip, pause or resume
QueueOrControlStep ==
    \/ \E t \in Threads :
          /\ thr[t].op \in {"add_song", "remove_at_index", "clear", "shuffle_queue"}
          /\ thr'[t] # thr[t]
    \/ /\ nrequests' > nrequests
       /\ last'.op \in {"skip_song", "pause_song", "resume_song"}
    \/ \E k \in Candidates : k.kind = "skip" /\ Ran(k)

\* C18: current_track changes only when get_next pops a song, which
\* becomes the current track, and when an explicit stop or a disconnect
\* sets it to None; no step of add_song, remove_at_index, clear, shuffle,
\* skip, pause or resume changes it.
C18_CurrentTrackFrame ==
    [][/\ current_track' # current_track =>
             \/ /\ queue # <<>>
                /\ current_track' = Head(queue)
                /\ queue' = Tail(queue)
             \/ /\ current_track' = NoSong
                /\ StopOrDisconnectStep
       /\ QueueOrControlStep => current_track' = current_track]_vars

\* the web stop has cleared the current track while songs are queued
C18_Witness ==
    /\ last.op = "stop_song"
    /\ last.ret = "true"
    /\ current_track = NoSong
    /\ queue # <<>>

\* C19: a get_next that finds songs queued removes the head, returns it and
\* leaves current_track equal to the song returned; a get_next that finds
\* the queue empty returns None and leaves the queue and current_track as
\* they were.
C19_GetNext ==
    [][\A t \in Threads :
          (thr[t].pc = "get_body" /\ thr'[t] # thr[t])
          => /\ last'.op = "get_next"
             /\ IF queue # <<>>
                THEN /\ last'.val = Head(queue)
                     /\ queue' = Tail(queue)
                     /\ current_track' = last'.val
                ELSE /\ last'.val = NoSong
                     /\ queue' = queue
                     /\ current_track' = current_track]_vars

\* get_next has just returned None on an empty queue, after an earlier
\* get_next had popped a song into current_track
C19_Witness ==
    /\ last.op = "get_next"
    /\ last.val = NoSong
    /\ queue = <<>>
    /\ current_track # NoSong

\* C20: a remove_at_index whose index is negative or not below size()
\* returns False and leaves the queued sequence and the current track as
\* they were.
C20_RemoveOutOfRange ==
    [][\A t \in Threads :
          (/\ thr[t].pc = "remove_body"
           /\ thr'[t] # thr[t]
           /\ (thr[t].arg < 0 \/ thr[t].arg >= Len(queue)))
          => /\ last'.op = "remove_at_index"
             /\ last'.ret = "false"
             /\ queue' = queue
             /\ current_track' = current_track]_vars

\* remove_at_index has just returned False while max_size songs are queued
\* and a current track is set
C20_Witness ==
    /\ last.op = "remove_at_index"
    /\ last.ret = "false"
    /\ Len(queue) = max_size
    /\ current_track # NoSong

C22_ClearKeepsCurrent ==
    [][\A t \in Threads :
          (thr[t].pc = "clear_body" /\ thr'[t] # thr[t])
          => /\ last'.op = "clear"
             /\ Len(queue') = 0
             /\ current_track' = current_track]_vars

\* clear() has just returned with a current track still set
C22_Witness ==
    /\ last.op = "clear"
    /\ queue = <<>>
    /\ current_track # NoSong
    /\ lock = NoThread

\* the list that shows one state of the queue: the current track first,
\* flagged current, exactly when one is set, then the queued songs in order,
\* flagged non-current
ViewOf(cur, q) ==
    [j \in 1..(Len(q) + IF cur # NoSong THEN 1 ELSE 0) |->
        IF cur # NoSong /\ j = 1
        THEN [song |-> to_dict(Song(cur)), current |-> TRUE]
        ELSE [song |-> to_dict(Song(q[IF cur # NoSong THEN j - 1 ELSE j])),
              current |-> FALSE]]

\* C23: every get_queue_list() returns the view of one single state of the
\* queue (the current track first and flagged, exactly when one is set, then
\* the queued songs in their order), whatever other threads do to the queue
\* while the call runs.
C23_ConsistentView ==
    [][\A t \in Threads :
          (thr[t].pc = "list_body" /\ thr'[t] # thr[t])
          => /\ last'.op = "get_queue_list"
             /\ last'.ret # "raise"
             /\ last'.view = ViewOf(current_track, queue)]_vars

\* C24: the list get_queue_list() returns is a copy: a caller that appends
\* to it, removes from it or alters an entry of it changes neither the
\* queued sequence, nor the current track, nor a field of any song.
C24_ReturnedListIsCopy ==
    [][/\ altered' = altered
       /\ (HoldsList /\ last'.op = last.op /\ last'.view # last.view)
          => /\ queue' = queue
             /\ current_track' = current_track]_vars

\* a caller has altered the entry of the current track and removed or added
\* entries of the list it was given, while songs are queued
C24_Witness ==
    /\ HoldsList
    /\ last.view # <<>>
    /\ last.view[1].song.title = Str("altered", 0)
    /\ last.view[1].current
    /\ Len(last.view) # Len(queue) + 1
    /\ queue # <<>>
    /\ current_track = last.view[1].song.id

\* a thread is inside the with-block of a queue operation
InQueueOperation(t) ==
    thr[t].pc \in {"add_check", "add_append", "get_body", "remove_body",
                   "clear_body", "list_test", "list_body", "size_body",
                   "shuffle_body"}

\* a request thread waits for the coroutine it handed to the event loop
WaitsOnHandOff(t) == thr[t].pc \in {"atq_wait", "fp_wait", "lc_wait"}

\* C25: the queue lock is never held across a search or extraction call nor
\* across the wait on a hand-off to the event loop: the loop thread, which
\* makes the search and extraction calls, holds the lock in no state between
\* its steps, and a request thread holds it only inside the with-block of a
\* queue operation, never while it waits on a hand-off.
C25_LockNotHeldAcross ==
    /\ lock # LoopThread
    /\ \A t \in Threads :
          /\ lock = t => InQueueOperation(t)
          /\ WaitsOnHandOff(t) => lock # t

\* one request thread waits on its hand-off and a dequeued song is about to
\* be searched for, while another request thread holds the lock
C25_Witness ==
    /\ \E t \in Threads : thr[t].pc = "atq_wait"
    /\ \E x \in Resolving : x.pc = "resolve"
    /\ lock \in Threads

\* C26: the search and extraction calls of a resolution run off the event
\* loop: the step in which play_next makes them suspends the coroutine until
\* it is notified of the result, so that the loop is free to run the
\* commands and callbacks that are scheduled.
C26_ResolutionOffLoop ==
    [][(\E k \in Candidates : pn_resolve(k)) => running' = NoTask]_vars

\* C27: for a song whose source is not 'spotify', play_next makes no search
\* call and passes the song's own URL to the stream extraction: the step
\* that resolves it leaves no query issued, and it goes on to play that URL
\* exactly when the extraction of that URL gives a stream, failing the song
\* otherwise.
C27_DirectUrl ==
    [][\A k \in Candidates :
          (pn_resolve(k) /\ SourceOf(k.song) # "spotify")
          => /\ searched' = <<>>
             /\ IF get_audio_url(Song(k.song).url) # 0
                THEN /\ running'.pc = "play"
                     /\ running'.song = k.song
                     /\ running'.url = Song(k.song).url
                ELSE /\ k.song \in failed'
                     /\ running'.pc # "play"]_vars

\* a directly playable song is about to be handed to the voice client with
\* its own URL and no query issued, after a Spotify song had been searched
\* for and had failed
C27_Witness ==
    \E x \in Resolving :
        /\ x.pc = "play"
        /\ SourceOf(x.song) # "spotify"
        /\ x.url = Song(x.song).url
        /\ searched = <<>>
        /\ failed # {}

\* a step of thread t inside a call of add_song, from taking the lock to
\* the return
AddSongCallStep(t) ==
    /\ thr'[t] # thr[t]
    /\ \/ thr[t].pc \in {"add_check", "add_append"}
       \/ thr'[t].pc = "add_check"

\* C28: add_song by itself never triggers playback: a call that returns
\* True has only appended its song at the tail of the queue, a call that
\* returns False has changed nothing, and no step of the call changes
\* current_track or is_playing, schedules a coroutine or touches the voice
\* client.
C28_AddSongOnlyAppends ==
    [][\A t \in Threads :
          AddSongCallStep(t)
          => /\ current_track' = current_track
             /\ is_playing' = is_playing
             /\ UNCHANGED <<ready, waiting, running, player, callbacks,
                            voice_client, connected>>
             /\ queue' = IF last'.op = "add_song" /\ last'.ret = "true"
                         THEN Append(queue, thr[t].arg)
                         ELSE queue]_vars

\* add_song has just returned True to the web add handler behind another
\* queued song, while the bot is connected and idle: nothing is scheduled
\* and nothing plays
C28_Witness ==
    /\ last.op = "add_song"
    /\ last.ret = "true"
    /\ Len(queue) > 1
    /\ \E t \in Threads : thr[t].pc = "atq_nudge"
    /\ voice_client # 0
    /\ ~is_playing
    /\ TaskCount = 0
    /\ player = NoPlayer

\* no play_next runs or is scheduled, no completion callback is pending and
\* no request thread is inside a handler
Quiescent ==
    /\ TaskCount = 0
    /\ callbacks = 0
    /\ \A t \in Threads : thr[t].pc = "idle"

\* C29: once the web stop has answered success and nothing has been asked
\* of the bot since, every quiescent state has the voice client neither
\* playing nor paused, is_playing False and current_track None, also when
\* songs remain queued.
C29_StopStaysStopped ==
    (last.op = "stop_song" /\ last.ret = "true" /\ Quiescent)
    => /\ ~vc_is_playing
       /\ ~vc_is_paused
       /\ ~is_playing
       /\ current_track = NoSong

\* C30: in every quiescent state is_playing is True exactly when the voice
\* client has an active stream (playing or paused), and current_track is
\* set whenever it has one.
C30_QuiescentFlags ==
    Quiescent
    => /\ is_playing <=> (vc_is_playing \/ vc_is_paused)
       /\ (vc_is_playing \/ vc_is_paused) => current_track # NoSong

\* C31: no dequeued song is lost because of a collision: when play_next
\* hands a resolved song to the voice client, either the song is started or
\* the voice client was not already playing another one.
C31_NoCollisionLoss ==
    [][\A k \in Candidates :
          pn_play(k)
          => \/ /\ player'.state = "playing"
                /\ player'.song = k.song
                /\ player # player'
             \/ ~vc_is_playing]_vars

\* C32: two web adds into a connected, idle session with an empty queue
\* start exactly one playback: once both have answered and the loop is
\* quiescent, one of the two songs is current and playing and the other is
\* still queued.
C32_TwoAddsOnePlayback ==
    (nrequests = 2 /\ Quiescent)
    => /\ vc_is_playing
       /\ is_playing
       /\ current_track = player.song
       /\ Len(queue) = 1

\* C33: leaving the voice channel while a song plays and songs are queued
\* does not consume the queue.  With the leave as the only thing asked of
\* the bot and no stream ending by itself, nothing adds to the queue, so
\* the queue after the leave is the queue before it exactly when no step
\* changes it.
C33_LeaveKeepsQueue == [][queue' = queue]_vars

\* C34: a play_next that runs while there is no voice client sets
\* is_playing to False and changes nothing else: the queue, current_track,
\* the queries issued, the failed songs, the voice client and its player
\* stay as they were, and the coroutine ends without scheduling anything.
C34_NoClientNoEffect ==
    [][\A k \in Candidates :
          (pn_start(k) /\ voice_client = 0)
          => /\ is_playing' = FALSE
             /\ queue' = queue
             /\ current_track' = current_track
             /\ searched' = searched
             /\ failed' = failed
             /\ UNCHANGED <<voice_client, connected, player, callbacks,
                            current_channel, current_guild_id>>
             /\ running' = NoTask
             /\ TaskCount' = TaskCount - 1]_vars

\* the web leave has set voice_client to None and not yet is_playing; the
\* play_next scheduled by the stopped stream has run meanwhile and has set
\* is_playing to False with a song still queued
C34_Witness ==
    /\ \E t \in Threads : thr[t].pc = "lc_write2"
    /\ voice_client = 0
    /\ ~is_playing
    /\ queue # <<>>
    /\ TaskCount = 0
    /\ callbacks = 0

ControlOps == {"pause_song", "resume_song", "skip_song", "stop_song", "force_play"}

\* C35: a web control operation that answers failure has changed nothing:
\* every accepted song is still queued in its place, and current_track and
\* is_playing are what they were (None and False when no stream was
\* started, the song of the stream and True otherwise).
C35_FailureChangesNothing ==
    (last.op \in ControlOps /\ last.ret = "false")
    => /\ queue = accepted
       /\ current_track = (IF player = NoPlayer THEN NoSong ELSE player.song)
       /\ is_playing = (player # NoPlayer)

\* C36: a !join that finds the coordinator Idle starts playback by itself:
\* once the join has run to its end, the song that headed the queue is
\* current and playing and the songs behind it are still queued; when
\* nothing was queued the coordinator is Idle as before.
C36_JoinStartsPlayback ==
    (nrequests = 1 /\ Quiescent)
    => IF accepted # <<>>
       THEN /\ vc_is_playing
            /\ player.song = Head(accepted)
            /\ current_track = Head(accepted)
            /\ is_playing
            /\ queue = Tail(accepted)
       ELSE /\ ~is_playing
            /\ player = NoPlayer
            /\ queue = <<>>

\* the join has connected a voice client, has dequeued the head of two
\* queued songs and its stream plays
C36_Witness ==
    /\ nrequests = 1
    /\ Quiescent
    /\ njoins = 1
    /\ voice_client = 1
    /\ Len(accepted) = 2
    /\ vc_is_playing
    /\ player.song = Head(accepted)
    /\ queue = Tail(accepted)

\* request thread t is inside the with-block of the web shuffle
InShuffle(t) == thr[t].op = "shuffle_queue" /\ thr[t].pc = "shuffle_body"

\* C37: the web shuffle only permutes the queued songs: the step that
\* replaces the deque leaves every song queued as often as before, size()
\* and current_track as they were; and from the moment the shuffle has
\* read the deque to the moment it replaces it no other operation changes
\* the queue, so that no concurrent add_song, get_next or remove_at_index
\* is lost or duplicated by it.
C37_ShuffleOnlyPermutes ==
    [][\A t \in Threads :
          /\ (InShuffle(t) /\ thr'[t].pc = "idle")
             => /\ \A x \in Tracks : Occurrences(queue', x) = Occurrences(queue, x)
                /\ Len(queue') = Len(queue)
                /\ current_track' = current_track
          /\ (InShuffle(t) /\ thr'[t] = thr[t])
             => queue' = queue]_vars

\* a shuffle of two different queued songs has returned, after a song was
\* dequeued
C37_Witness ==
    /\ last.op = "shuffle_queue"
    /\ last.ret = "true"
    /\ Len(queue) = 2
    /\ queue[1] # queue[2]
    /\ current_track # NoSong

\* C38: a request for one of the ten guarded web operations that comes
\* without a logged-in user, while the bot has no current guild, or from a
\* user who is not a member of the current guild is answered 401 or 403
\* and changes neither the queue nor the playback state nor the session.
C38_RejectedWithoutAccess ==
    [][\A user \in Users :
          (require_guild_access(user) /\ ~(user = Member /\ current_guild_id))
          => /\ last'.ret \in {"401", "403"}
             /\ thr' = thr
             /\ UNCHANGED <<queue, current_track, max_size, lock, bvars, lvars,
                            gvars>>]_vars

\* a request of a user who is not a member was turned away with 403 while
\* the song a member had added played
C38_Witness ==
    /\ last.ret = "403"
    /\ current_guild_id
    /\ vc_is_playing
    /\ current_track = player.song

=============================================================================
